---- MODULE Spec2Model ----
(***************************************************************************)
(* Seller-profile reconciliation of im-ai-voice (config.go).               *)
(*                                                                         *)
(* One account's persisted SellerProfile is folded forward by              *)
(* UpdateSellerProfile, one call analysis at a time: processIssues,        *)
(* updateTrends, calculateCurrentStatus, updateIssueStats, then the save.  *)
(*                                                                         *)
(* TrendPoint.Value is a float64 in the source; every value the series     *)
(* hold is a multiple of 0.5, so the model stores twice the value as an      *)
(* integer and compares the averages by cross-multiplication.              *)
(***************************************************************************)
EXTENDS Integers, Sequences, FiniteSets, TLC

VARIABLES
    stored,   \* the persisted profile of the account: <<>> (not found) or <<profile>>
    calls,    \* the analyses reconciled so far, oldest first (the handler's inputs)
    clock,    \* time.Now(), advanced by every invocation of the handler
    series,   \* one trend series on its own: the points appended so far
    direction, \* the direction last computed for series ("" before the first)
    analysisFiles, \* the stored analysis files: file key -> AnalysisResult
    aggregate, \* the stored aggregate of the date: <<>> (none) or <<aggregate>>
    tickets,   \* the stored tickets of the date, one per ticket id
    aggLog,    \* the saves and aggregation runs so far, oldest first
    mongoEnabled, \* IsMongoEnabled(): MongoDB was connected at startup
    mongoStored,  \* the account's document of the profiles collection: <<>> or <<profile>>
    updateLog,    \* what each invocation of UpdateSellerProfile met and returned
    analysisCount,  \* the watcher's count of analyses since the last aggregation
    processedFiles, \* the transcripts the watcher marked as processed
    lastOutcome,    \* how the watcher's latest processTranscript went
    updating,     \* per goroutine calling UpdateSellerProfile: <<>> or what it loaded
    running,      \* per goroutine calling RunAggregation: <<>> or the run under way
    provenance,   \* the runs the stored aggregate and the stored tickets were saved by
    mongoAnalyses, \* the analyses collection of MongoDB: call id -> AnalysisResult
    pendingSync    \* the analyses whose SyncAnalysis goroutine has not written yet

vars == <<stored, calls, clock, series, direction,
          analysisFiles, aggregate, tickets, aggLog,
          mongoEnabled, mongoStored, updateLog,
          analysisCount, processedFiles, lastOutcome,
          updating, running, provenance,
          mongoAnalyses, pendingSync>>

profileIO == <<mongoEnabled, mongoStored, updateLog>>

watcherVars == <<analysisCount, processedFiles, lastOutcome>>

procVars == <<updating, running, provenance>>

syncVars == <<mongoAnalyses, pendingSync>>

----------------------------------------------------------------------------
(* Bounds and input domains                                                *)

MaxCalls == 3

MaxStatusCalls == 2

MaxPoints == 4

MaxAggSteps == 3

MaxStorageCalls == 3

MaxAggIOSteps == 2

MaxWatcherSteps == 11

MaxSerialCalls == 3

MaxRuns == 3

MaxOrderCalls == 3

MaxIssueCalls == 3

MaxIDSteps == 2

MaxRestartSteps == 4

MaxPollFiles == 3

MaxPollFaults == 2

MaxPendingSync == 2

MaxWatcherFaults == 1

GluserID == "g1"

\* analysis.CallID is the transcript's click_to_call_id: input data, which repeats
\* when a transcript is folded twice.
CallIDs == {"c1", "c2"}

Issue(bucket, severity) == [Bucket |-> bucket, Severity |-> severity]

IssueInputs ==
    {Issue("Billing", "low"), Issue("Billing", "high"), Issue("Payments", "low")}

\* No issue, one issue, the same category twice in one call, two categories.
IssueLists ==
    {<<>>} \cup {<<i>> : i \in IssueInputs}
           \cup {<<Issue("Billing", "low"), Issue("Billing", "high")>>,
                 <<Issue("Billing", "low"), Issue("Payments", "low")>>}

Analysis(callID, ts, issues, sentiment, satisfaction, resolution, churn) ==
    [CallID |-> callID, Timestamp |-> ts, Issues |-> issues,
     Sentiment |-> sentiment, SatisfactionScore |-> satisfaction,
     PromptResolution |-> resolution, IsLikelyToChurn |-> churn]

\* Inputs of the issue-lifecycle specification: the issue list, the call id and the
\* resolution signal vary; the intent is the one of the end-to-end scenario.
Analyses ==
    {Analysis(c, 1, l, "Negative", 2, r, "high") :
        c \in CallIDs, l \in IssueLists, r \in BOOLEAN}

\* Inputs of the status specification: every sentiment and churn tier, a low and a
\* high satisfaction, and issue lists of zero, one and seven categories (seven open
\* issues exceed the cap of the open-issue penalty).
SevenBuckets ==
    <<"Billing", "Payments", "Lead Quality", "Lead Quantity",
      "Communication", "Buyer Interaction", "Other">>

StatusIssueLists ==
    {<<>>, <<Issue("Billing", "medium")>>,
     [i \in DOMAIN SevenBuckets |-> Issue(SevenBuckets[i], "medium")]}

Sentiments == {"Positive", "Neutral", "Negative"}

ChurnTiers == {"low", "medium", "high"}

SatisfactionScores == {2, 9}

StatusAnalyses ==
    {Analysis("c1", 1, l, s, q, FALSE, c) :
        l \in StatusIssueLists, s \in Sentiments, q \in SatisfactionScores,
        c \in ChurnTiers}

\* What the storage does to one invocation of UpdateSellerProfile: the read of
\* the profiles collection and the read of the profile file succeed or fail
\* with a genuine error; the save succeeds, fails leaving the store as it was,
\* or (os.WriteFile truncates, then writes) fails after the truncation.
StorageIO(mongoLoad, fileLoad, save) ==
    [MongoLoad |-> mongoLoad, FileLoad |-> fileLoad, Save |-> save]

NoFaults == StorageIO("ok", "ok", "ok")

\* At most one fault per invocation.
StorageIOs ==
    {NoFaults, StorageIO("error", "ok", "ok"), StorageIO("ok", "error", "ok"),
     StorageIO("ok", "ok", "error"), StorageIO("ok", "ok", "truncated")}

StorageAnalyses ==
    {Analysis("c1", 1, l, "Negative", 2, FALSE, "high") :
        l \in {<<>>, <<Issue("Billing", "low")>>}}

\* What the storage does to one run of aggregation: the save of the
\* aggregate succeeds or fails, and the save of the FailedTicket-th ticket
\* fails (0: of none).
AggIO(saveAggregate, failedTicket) ==
    [SaveAggregate |-> saveAggregate, FailedTicket |-> failedTicket]

NoAggFaults == AggIO("ok", 0)

AggIOs == {AggIO(s, k) : s \in {"ok", "error"}, k \in 0..2}

\* A call reporting one issue: no category reaches the ticket threshold.
OneIssue == <<[Bucket |-> "Other", Problem |-> "p1", Severity |-> "low"]>>

\* How one processTranscript goes: the file cannot be read, it does not
\* parse, its transcript is empty, the analysis fails, the profile update
\* fails, the analysis file cannot be saved, or everything works.
Outcomes ==
    {"read error", "parse error", "empty", "analysis error", "profile error",
     "analysis save error", "ok"}

\* The analysis of the transcript of file f: one Payments issue.
WatcherAnalysis(f) ==
    Analysis(ToString(f), 1, <<Issue("Payments", "low")>>, "Negative", 2, FALSE, "high")

WatcherIssues == <<[Bucket |-> "Payments", Problem |-> "p1", Severity |-> "low"]>>

\* The inputs of the interleaving specification: no issue or one, of two
\* categories, resolved or not, under two call ids.
SerialAnalyses ==
    {Analysis(c, 1, l, "Negative", 2, r, "high") :
        c \in CallIDs, r \in BOOLEAN,
        l \in {<<>>, <<Issue("Billing", "low")>>, <<Issue("Payments", "low")>>}}

\* UpdateSellerProfile called from the goroutine of an HTTP handler as well.
UpdatersWithHandler == {"watcher", "http1"}

\* The goroutines that call UpdateSellerProfile: main starts one watcher, and
\* its loop processes the transcripts one after the other.
Updaters == {"watcher"}

\* The goroutines that call RunAggregation: the watcher, and the goroutines
\* net/http serves POST /aggregates/trigger requests on.
Runners == {"watcher", "http1", "http2"}

\* Calls whose assessments carry the timestamps 1, 2 and 3, reconciled in
\* any order.
OrderAnalyses ==
    {Analysis("c1", ts, <<>>, s, 9, FALSE, "low") : ts \in 1..3, s \in Sentiments}

\* The date aggregation runs for.
AggDate == "2026-01-01"

\* Analysis files are named gluser_<seller>_call_<call>.analysis.json.
FileKey(sellerID, callID) == [SellerID |-> sellerID, CallID |-> callID]

FileKeys == {FileKey("g1", "c1"), FileKey("g1", "c2"), FileKey("g2", "c1")}

ReportedIssue(bucket, problem, severity) ==
    [Bucket |-> bucket, Problem |-> problem, Severity |-> severity]

Repeat(n, issue) == [i \in 1..n |-> issue]

\* The issue lists of the analyses aggregation reads: a call about three
\* categories, a call about one, a call about six categories, and a call
\* reporting six distinct problems of one category.
ThreeBucketIssues ==
    Repeat(4, ReportedIssue("Payments", "p1", "high"))
        \o Repeat(2, ReportedIssue("Lead Quality", "p1", "medium"))
        \o Repeat(1, ReportedIssue("Other", "p1", "low"))

OneBucketIssues == Repeat(4, ReportedIssue("Payments", "p1", "high"))

SixBucketIssues ==
    Repeat(4, ReportedIssue("Payments", "p1", "high"))
        \o Repeat(3, ReportedIssue("Lead Quality", "p1", "medium"))
        \o Repeat(2, ReportedIssue("Billing & Renewal", "p1", "medium"))
        \o Repeat(1, ReportedIssue("Communication", "p1", "low"))
        \o Repeat(1, ReportedIssue("Lead Quantity", "p1", "low"))
        \o Repeat(1, ReportedIssue("Other", "p1", "low"))

SixProblemIssues ==
    Repeat(4, ReportedIssue("Payments", "p1", "high"))
        \o Repeat(3, ReportedIssue("Payments", "p2", "high"))
        \o Repeat(2, ReportedIssue("Payments", "p3", "medium"))
        \o Repeat(2, ReportedIssue("Payments", "p4", "medium"))
        \o Repeat(1, ReportedIssue("Payments", "p5", "low"))
        \o Repeat(1, ReportedIssue("Payments", "p6", "low"))

AggIssueLists ==
    {ThreeBucketIssues, OneBucketIssues, SixBucketIssues, SixProblemIssues}

AnalysisResult(key, date, issues) ==
    [SellerID |-> key.SellerID, CallID |-> key.CallID, Date |-> date, Issues |-> issues]

NoFiles == <<>>

StoreOf(a1, a2, a3) ==
    [k \in FileKeys |->
        AnalysisResult(k, AggDate,
            CASE k = FileKey("g1", "c1") -> a1
              [] k = FileKey("g1", "c2") -> a2
              [] OTHER                   -> a3)]

\* The analysis stores aggregation starts from: none, the three calls of a
\* day with counts 12, 4 and 2, and three calls about six categories.
InitialStores ==
    {NoFiles,
     StoreOf(ThreeBucketIssues, ThreeBucketIssues, OneBucketIssues),
     StoreOf(SixBucketIssues, SixBucketIssues, SixBucketIssues)}

\* Values a trend point can hold, as twice the source value: 0, 0.5 and 1
\* (sentiment, churn risk) and the integers 2 and 3 (satisfaction, issue count).
TrendValues == {0, 1, 2, 4, 6}

----------------------------------------------------------------------------
(* Helpers                                                                 *)

MinOf(S) == CHOOSE x \in S : \A y \in S : x <= y

RECURSIVE SumSeq(_)
SumSeq(s) == IF s = <<>> THEN 0 ELSE Head(s) + SumSeq(Tail(s))

Take(seq, n) == SubSeq(seq, 1, IF n <= Len(seq) THEN n ELSE Len(seq))

\* The outcomes of sort.Slice with the comparison count[i] > count[j] over the
\* entries of a map: Go iterates maps in random order and sort.Slice is not
\* stable, so every ordering with non-increasing counts can come out.
RECURSIVE DescendingOrders(_)
DescendingOrders(count) ==
    IF DOMAIN count = {} THEN {<<>>}
    ELSE
        LET top    == CHOOSE m \in {count[x] : x \in DOMAIN count} :
                          \A x \in DOMAIN count : count[x] <= m
            firsts == {x \in DOMAIN count : count[x] = top}
        IN  UNION {{<<x>> \o rest :
                       rest \in DescendingOrders([y \in DOMAIN count \ {x} |-> count[y]])} :
                   x \in firsts}

----------------------------------------------------------------------------
(* processIssues                                                           *)

severityLevel(sev) ==
    CASE sev = "critical" -> 4
      [] sev = "high"     -> 3
      [] sev = "medium"   -> 2
      [] sev = "low"      -> 1
      [] OTHER            -> 0

\* isSameIssue asking for the same severity as well as the same bucket.
isSameIssueAndSeverity(tracked, new) ==
    tracked.Bucket = new.Bucket /\ tracked.Severity = new.Severity

isSameIssue(tracked, new) == tracked.Bucket = new.Bucket

\* The inner loop of processIssues: index of the first active issue that matches,
\* 0 when there is none (the source's -1).
matchedIdx(active, issue) ==
    LET hits == {i \in 1..Len(active) : isSameIssue(active[i], issue)}
    IN  IF hits = {} THEN 0 ELSE MinOf(hits)

\* fmt.Sprintf("%s-%s-%d", profile.GluserID, analysis.CallID, len(profile.ActiveIssues))
newIssueID(gluserID, callID, n) == gluserID \o "-" \o callID \o "-" \o ToString(n)

\* updateExisting counting the mention without recording the call id.
updateExistingForgetsCallID(existing, issue, callID, now) ==
    [existing EXCEPT
        !.LastMentionedAt = now,
        !.MentionCount = @ + 1,
        !.IsRecurring = (existing.MentionCount + 1 >= 2),
        !.Severity = IF severityLevel(issue.Severity) > severityLevel(@)
                     THEN issue.Severity ELSE @]

\* updateExisting taking the reported severity whatever its rank.
updateExistingOverwritesSeverity(existing, issue, callID, now) ==
    [existing EXCEPT
        !.LastMentionedAt = now,
        !.MentionCount = @ + 1,
        !.CallIDs = Append(@, callID),
        !.IsRecurring = (existing.MentionCount + 1 >= 2),
        !.Severity = issue.Severity]

updateExisting(existing, issue, callID, now) ==
    [existing EXCEPT
        !.LastMentionedAt = now,
        !.MentionCount = @ + 1,
        !.CallIDs = Append(@, callID),
        !.IsRecurring = (existing.MentionCount + 1 >= 2),
        !.Severity = IF severityLevel(issue.Severity) > severityLevel(@)
                     THEN issue.Severity ELSE @]

newTrackedIssue(gluserID, issue, callID, n, now) ==
    [IssueID         |-> newIssueID(gluserID, callID, n),
     Bucket          |-> issue.Bucket,
     Severity        |-> issue.Severity,
     Status          |-> "open",
     FirstReportedAt |-> now,
     LastMentionedAt |-> now,
     ResolvedAt      |-> <<>>,
     MentionCount    |-> 1,
     CallIDs         |-> <<callID>>,
     IsRecurring     |-> FALSE]

\* One iteration of the loop over analysis.Issues. st = [active, mentioned].
trackIssue(st, issue, gluserID, callID, now) ==
    LET m == matchedIdx(st.active, issue)
    IN  IF m > 0
        THEN [active    |-> [st.active EXCEPT
                                ![m] = updateExisting(st.active[m], issue, callID, now)],
              mentioned |-> st.mentioned \cup {st.active[m].IssueID}]
        ELSE LET newIssue == newTrackedIssue(gluserID, issue, callID, Len(st.active), now)
             IN  [active    |-> Append(st.active, newIssue),
                  mentioned |-> st.mentioned \cup {newIssue.IssueID}]

RECURSIVE trackIssues(_, _, _, _, _)
trackIssues(st, issues, gluserID, callID, now) ==
    IF issues = <<>> THEN st
    ELSE trackIssues(trackIssue(st, Head(issues), gluserID, callID, now),
                     Tail(issues), gluserID, callID, now)

\* markResolved that moves the issue without stamping resolved_at.
markResolvedNoTimestamp(active, now) == [active EXCEPT !.Status = "resolved"]

markResolved(active, now) ==
    [active EXCEPT !.Status = "resolved", !.ResolvedAt = <<now>>]

\* The resolution pass: only when the call signalled prompt resolution.
resolveUnmentioned(active, resolved, mentioned, promptResolution, now) ==
    IF promptResolution /\ Len(active) > 0
    THEN LET isMentioned(a) == a.IssueID \in mentioned
             gone == SelectSeq(active, LAMBDA a : ~isMentioned(a))
         IN  [active        |-> SelectSeq(active, isMentioned),
              resolved      |-> resolved \o
                                [i \in 1..Len(gone) |-> markResolved(gone[i], now)],
              resolvedCount |-> Len(gone)]
    ELSE [active |-> active, resolved |-> resolved, resolvedCount |-> 0]

processIssues(profile, analysis, now) ==
    LET st == trackIssues([active |-> profile.ActiveIssues, mentioned |-> {}],
                          analysis.Issues, profile.GluserID, analysis.CallID, now)
        r  == resolveUnmentioned(st.active, profile.ResolvedIssues, st.mentioned,
                                 analysis.PromptResolution, now)
    IN  [profile       |-> [profile EXCEPT !.ActiveIssues = r.active,
                                           !.ResolvedIssues = r.resolved],
         resolvedCount |-> r.resolvedCount]

----------------------------------------------------------------------------
(* updateTrends and calculateTrendDirection                                *)
(* Values are kept in halves: the model's Value is 2 * the source's.       *)

sentimentValue(sentiment) ==
    CASE sentiment = "Positive" -> 2
      [] sentiment = "Neutral"  -> 1
      [] sentiment = "Negative" -> 0
      [] OTHER                  -> 0

churnValue(churn) ==
    CASE churn = "high"   -> 2
      [] churn = "medium" -> 1
      [] churn = "low"    -> 0
      [] OTHER            -> 0

TrendPoint(date, value, label, callID) ==
    [Date |-> date, Value |-> value, Label |-> label, CallID |-> callID]

\* calculateTrendDirection over the whole series instead of its last 3 points.
calculateTrendDirectionAllPoints(points) ==
    IF Len(points) < 2 THEN "stable"
    ELSE
        LET k      == Len(points)
            mid    == IF k \div 2 = 0 THEN 1 ELSE k \div 2
            firstHalf  == SumSeq([i \in 1..mid |-> points[i].Value])
            secondHalf == SumSeq([i \in 1..(k - mid) |-> points[mid + i].Value])
            num == secondHalf * mid - firstHalf * (k - mid)
            den == mid * (k - mid)
        IN  IF 10 * num > 2 * den THEN "improving"
            ELSE IF 10 * num < -(2 * den) THEN "declining"
            ELSE "stable"

\* calculateTrendDirection with the threshold at 1.0 instead of 0.1.
calculateTrendDirectionWideBand(points) ==
    IF Len(points) < 2 THEN "stable"
    ELSE
        LET n      == Len(points)
            start  == IF n - 3 < 0 THEN 0 ELSE n - 3
            recent == SubSeq(points, start + 1, n)
            k      == Len(recent)
            mid    == IF k \div 2 = 0 THEN 1 ELSE k \div 2
            firstHalf  == SumSeq([i \in 1..mid |-> recent[i].Value])
            secondHalf == SumSeq([i \in 1..(k - mid) |-> recent[mid + i].Value])
            num == secondHalf * mid - firstHalf * (k - mid)
            den == mid * (k - mid)
        IN  IF num > 2 * den THEN "improving"
            ELSE IF num < -(2 * den) THEN "declining"
            ELSE "stable"

calculateTrendDirection(points) ==
    IF Len(points) < 2 THEN "stable"
    ELSE
        LET n      == Len(points)
            start  == IF n - 3 < 0 THEN 0 ELSE n - 3
            recent == SubSeq(points, start + 1, n)
            k      == Len(recent)
            mid    == IF k \div 2 = 0 THEN 1 ELSE k \div 2
            firstHalf  == SumSeq([i \in 1..mid |-> recent[i].Value])
            secondHalf == SumSeq([i \in 1..(k - mid) |-> recent[mid + i].Value])
            \* diff = secondHalf/(k-mid) - firstHalf/mid, in halves; the common
            \* denominator mid*(k-mid) is positive. diff > 0.1 in the source is
            \* num/den > 2/10 here.
            num == secondHalf * mid - firstHalf * (k - mid)
            den == mid * (k - mid)
        IN  IF 10 * num > 2 * den THEN "improving"
            ELSE IF 10 * num < -(2 * den) THEN "declining"
            ELSE "stable"

\* overallTrend without the inversion of the issue trend's polarity.
overallTrendNotInverted(issueTrend, sentimentTrend) ==
    IF issueTrend = "stable" THEN sentimentTrend ELSE issueTrend

overallTrend(issueTrend, sentimentTrend) ==
    IF issueTrend = "declining" THEN "improving"
    ELSE IF issueTrend = "improving" THEN "declining"
    ELSE sentimentTrend

updateTrends(profile, analysis) ==
    LET date == analysis.Timestamp
        t    == profile.Trends
        sh   == Append(t.SentimentHistory,
                       TrendPoint(date, sentimentValue(analysis.Sentiment),
                                  analysis.Sentiment, analysis.CallID))
        sat  == Append(t.SatisfactionHistory,
                       TrendPoint(date, 2 * analysis.SatisfactionScore, "", analysis.CallID))
        ih   == Append(t.IssueHistory,
                       TrendPoint(date, 2 * Len(analysis.Issues), "", analysis.CallID))
        ch   == Append(t.ChurnRiskHistory,
                       TrendPoint(date, churnValue(analysis.IsLikelyToChurn),
                                  analysis.IsLikelyToChurn, analysis.CallID))
        sentimentTrend == calculateTrendDirection(sh)
    IN  [profile EXCEPT !.Trends =
            [SentimentHistory    |-> sh,
             SatisfactionHistory |-> sat,
             IssueHistory        |-> ih,
             ChurnRiskHistory    |-> ch,
             SentimentTrend      |-> sentimentTrend,
             SatisfactionTrend   |-> calculateTrendDirection(sat),
             OverallTrend        |-> overallTrend(calculateTrendDirection(ih),
                                                  sentimentTrend)]]

----------------------------------------------------------------------------
(* calculateCurrentStatus                                                  *)

sentimentImpact(sentiment) ==
    CASE sentiment = "Positive" -> 20
      [] sentiment = "Negative" -> -20
      [] OTHER                  -> 0

satisfactionImpact(satisfaction) == (satisfaction - 5) * 4

\* churnImpact with the sign of the high tier slipped.
churnImpactHighAdds(churn) ==
    CASE churn = "low"  -> 15
      [] churn = "high" -> 25
      [] OTHER          -> 0

churnImpact(churn) ==
    CASE churn = "low"  -> 15
      [] churn = "high" -> -25
      [] OTHER          -> 0

\* issueImpact without its cap.
issueImpactUncapped(openIssueCount) == openIssueCount * 5

issueImpact(openIssueCount) ==
    IF openIssueCount * 5 > 30 THEN 30 ELSE openIssueCount * 5

recurringCount(activeIssues) ==
    Cardinality({i \in 1..Len(activeIssues) : activeIssues[i].IsRecurring})

trendImpact(trend) ==
    CASE trend = "improving" -> 10
      [] trend = "declining" -> -10
      [] OTHER               -> 0

\* clampScore without the upper clamp.
clampScoreNoCeiling(score) == IF score < 0 THEN 0 ELSE score

clampScore(score) ==
    IF score < 0 THEN 0 ELSE IF score > 100 THEN 100 ELSE score

healthLabel(score) ==
    IF score >= 70 THEN "Healthy"
    ELSE IF score >= 40 THEN "At Risk"
    ELSE "Critical"

\* attention with the churn rule tested before the score rule.
attentionChurnFirst(healthScore, churnRisk, recurring, trend) ==
    IF churnRisk = "high" THEN <<TRUE, "High churn risk">>
    ELSE IF healthScore < 40 THEN <<TRUE, "Critical health score">>
    ELSE IF recurring > 0
         THEN <<TRUE, ToString(recurring) \o " recurring unresolved issues">>
    ELSE IF trend = "declining" THEN <<TRUE, "Declining trend detected">>
    ELSE <<FALSE, "">>

\* The needs-attention chain: <<flag, reason>> of the first rule that matches.
attention(healthScore, churnRisk, recurring, trend) ==
    IF healthScore < 40 THEN <<TRUE, "Critical health score">>
    ELSE IF churnRisk = "high" THEN <<TRUE, "High churn risk">>
    ELSE IF recurring > 0
         THEN <<TRUE, ToString(recurring) \o " recurring unresolved issues">>
    ELSE IF trend = "declining" THEN <<TRUE, "Declining trend detected">>
    ELSE <<FALSE, "">>

calculateCurrentStatus(profile, analysis) ==
    LET openIssueCount == Len(profile.ActiveIssues)
        recurring      == recurringCount(profile.ActiveIssues)
        score == clampScore(50 + sentimentImpact(analysis.Sentiment)
                               + satisfactionImpact(analysis.SatisfactionScore)
                               + churnImpact(analysis.IsLikelyToChurn)
                               - issueImpact(openIssueCount)
                               - recurring * 10
                               + trendImpact(profile.Trends.OverallTrend))
        att == attention(score, analysis.IsLikelyToChurn, recurring,
                         profile.Trends.OverallTrend)
    IN  [profile EXCEPT !.CurrentStatus =
            [HealthScore       |-> score,
             HealthLabel       |-> healthLabel(score),
             ChurnRisk         |-> analysis.IsLikelyToChurn,
             Sentiment         |-> analysis.Sentiment,
             SatisfactionScore |-> analysis.SatisfactionScore,
             OpenIssueCount    |-> openIssueCount,
             NeedsAttention    |-> att[1],
             AttentionReason   |-> att[2]]]

----------------------------------------------------------------------------
(* updateIssueStats: the counters and the severity histogram               *)

severityBreakdown(activeIssues) ==
    LET sevs == {activeIssues[i].Severity : i \in 1..Len(activeIssues)}
    IN  [s \in sevs |->
            Cardinality({i \in 1..Len(activeIssues) : activeIssues[i].Severity = s})]

BucketCount(bucket, count) == [Bucket |-> bucket, Count |-> count]

\* The number of tracked issues of each bucket, active and resolved.
bucketCounts(profile) ==
    LET all == profile.ActiveIssues \o profile.ResolvedIssues
    IN  [b \in {all[i].Bucket : i \in 1..Len(all)} |->
            Cardinality({i \in 1..Len(all) : all[i].Bucket = b})]

\* The lists updateIssueStats can leave in IssueStats.TopBuckets. No code reads
\* the list back, so the profile of the model does not carry it: it would
\* only multiply the states by the orderings of equal counts.
topBuckets(profile) ==
    LET counts == bucketCounts(profile)
    IN  {LET kept == Take(sorted, 5)
         IN  [i \in 1..Len(kept) |-> BucketCount(kept[i], counts[kept[i]])] :
            sorted \in DescendingOrders(counts)}

\* updateIssueStats counting the resolved issues as open too.
updateIssueStatsOpenCountsAll(profile) ==
    [profile EXCEPT !.IssueStats =
        [TotalIssuesEver   |-> Len(profile.ActiveIssues) + Len(profile.ResolvedIssues),
         CurrentOpenCount  |-> Len(profile.ActiveIssues) + Len(profile.ResolvedIssues),
         ResolvedCount     |-> Len(profile.ResolvedIssues),
         RecurringCount    |-> recurringCount(profile.ActiveIssues),
         SeverityBreakdown |-> severityBreakdown(profile.ActiveIssues)]]

updateIssueStats(profile) ==
    [profile EXCEPT !.IssueStats =
        [TotalIssuesEver   |-> Len(profile.ActiveIssues) + Len(profile.ResolvedIssues),
         CurrentOpenCount  |-> Len(profile.ActiveIssues),
         ResolvedCount     |-> Len(profile.ResolvedIssues),
         RecurringCount    |-> recurringCount(profile.ActiveIssues),
         SeverityBreakdown |-> severityBreakdown(profile.ActiveIssues)]]

----------------------------------------------------------------------------
(* UpdateSellerProfile                                                     *)

NotFound == <<>>

\* The profile created when LoadSellerProfile finds none (Go zero values elsewhere).
newProfile(gluserID, now) ==
    [GluserID       |-> gluserID,
     CreatedAt      |-> now,
     UpdatedAt      |-> 0,
     LastCallAt     |-> 0,
     TotalCalls     |-> 0,
     CallHistory    |-> <<>>,
     ActiveIssues   |-> <<>>,
     ResolvedIssues |-> <<>>,
     CurrentStatus  |-> [HealthScore |-> 0, HealthLabel |-> "", ChurnRisk |-> "",
                         Sentiment |-> "", SatisfactionScore |-> 0,
                         OpenIssueCount |-> 0, NeedsAttention |-> FALSE,
                         AttentionReason |-> ""],
     IssueStats     |-> [TotalIssuesEver |-> 0, CurrentOpenCount |-> 0,
                         ResolvedCount |-> 0, RecurringCount |-> 0,
                         SeverityBreakdown |-> <<>>],
     Trends         |-> [SentimentHistory |-> <<>>, SatisfactionHistory |-> <<>>,
                         IssueHistory |-> <<>>, ChurnRiskHistory |-> <<>>,
                         SentimentTrend |-> "", SatisfactionTrend |-> "",
                         OverallTrend |-> ""]]

callSummary(analysis) ==
    [CallID         |-> analysis.CallID,
     Timestamp      |-> analysis.Timestamp,
     Sentiment      |-> analysis.Sentiment,
     IssuesRaised   |-> Len(analysis.Issues),
     IssuesResolved |-> 0]

\* reconcile without the increment of TotalCalls.
reconcileNoCount(loaded, gluserID, analysis, now) ==
    LET profile == IF loaded = NotFound THEN newProfile(gluserID, now) ELSE loaded[1]
        p1 == [profile EXCEPT
                   !.CallHistory = <<callSummary(analysis)>> \o @,
                   !.LastCallAt  = analysis.Timestamp]
        pi == processIssues(p1, analysis, now)
        p2 == [pi.profile EXCEPT !.CallHistory[1].IssuesResolved = pi.resolvedCount]
        p3 == updateTrends(p2, analysis)
        p4 == calculateCurrentStatus(p3, analysis)
    IN  updateIssueStats(p4)

\* The in-memory part of UpdateSellerProfile: from the loaded profile to the one
\* handed to SaveSellerProfile. Each statement works on the value the one before
\* it left: profile, p1, pi, p2, p3 and p4 in turn.
reconcile(loaded, gluserID, analysis, now) ==
    CHOOSE result \in
      {updateIssueStats(p4) :
        p4 \in {calculateCurrentStatus(p3, analysis) :
          p3 \in {updateTrends(p2, analysis) :
            p2 \in {[pi.profile EXCEPT
                       !.CallHistory[1].IssuesResolved = pi.resolvedCount] :
              pi \in {processIssues(p1, analysis, now) :
                p1 \in {[profile EXCEPT
                           !.CallHistory = <<callSummary(analysis)>> \o @,
                           !.TotalCalls  = @ + 1,
                           !.LastCallAt  = analysis.Timestamp] :
                  profile \in {IF loaded = NotFound THEN newProfile(gluserID, now)
                                                     ELSE loaded[1]}}}}}}} : TRUE

\* SaveSellerProfile stamps UpdatedAt and replaces the stored profile.
SaveSellerProfile(profile, now) == <<[profile EXCEPT !.UpdatedAt = now]>>

\* A profile file os.WriteFile truncated and did not finish writing:
\* json.Unmarshal fails on it.
Truncated == <<[Truncated |-> TRUE]>>

\* loadSellerProfileFromFile: a missing file is "not found" (nil, nil); a read
\* error and a file that does not parse are errors.
loadSellerProfileFromFile(io) ==
    IF stored = NotFound THEN [Err |-> FALSE, Profile |-> NotFound]
    ELSE IF io.FileLoad = "error" \/ stored = Truncated
        THEN [Err |-> TRUE, Profile |-> NotFound]
    ELSE [Err |-> FALSE, Profile |-> stored]

\* LoadSellerProfile: MongoDB first; its error is logged only, and whenever it
\* gave no profile (not found, or the error) the file is read.
LoadSellerProfile(io) ==
    IF mongoEnabled /\ io.MongoLoad = "ok" /\ mongoStored # NotFound
        THEN [Err |-> FALSE, Profile |-> mongoStored]
    ELSE loadSellerProfileFromFile(io)

\* The stores after SaveSellerProfile(saved) at time now under io, and its
\* error.
saveOutcome(saved, io, now) ==
    IF mongoEnabled
        THEN IF io.Save = "ok"
                 THEN [Err |-> FALSE, Step |-> "save", File |-> stored, Mongo |-> saved,
                       Now |-> now]
                 ELSE [Err |-> TRUE, Step |-> "save", File |-> stored,
                       Mongo |-> mongoStored, Now |-> now]
    ELSE IF io.Save = "ok"
        THEN [Err |-> FALSE, Step |-> "save", File |-> saved, Mongo |-> mongoStored,
              Now |-> now]
    ELSE IF io.Save = "truncated"
        THEN [Err |-> TRUE, Step |-> "save", File |-> Truncated, Mongo |-> mongoStored,
              Now |-> now]
    ELSE [Err |-> TRUE, Step |-> "save", File |-> stored, Mongo |-> mongoStored,
          Now |-> now]

\* One invocation of UpdateSellerProfile under the storage behaviour io: load
\* (an error returns), reconcile in memory, save as the last step.
\* What UpdateSellerProfile(analysis) does at time now under io: the error it
\* returns, the step that gave it, and the stores it leaves.
updateSellerProfile(analysis, io, now) ==
    LET loaded == LoadSellerProfile(io)
    IN  IF loaded.Err
        THEN [Err |-> TRUE, Step |-> "load", File |-> stored, Mongo |-> mongoStored,
              Now |-> now - 1]
        ELSE saveOutcome(
                 SaveSellerProfile(reconcile(loaded.Profile, GluserID, analysis, now), now),
                 io, now)

UpdateSellerProfileIO(analysis, io) ==
    \E out \in {updateSellerProfile(analysis, io, clock + 1)} :
        /\ stored' = out.File
        /\ mongoStored' = out.Mongo
        /\ calls' = IF out.Err THEN calls ELSE Append(calls, analysis)
        /\ clock' = out.Now
        /\ updateLog' = Append(updateLog, [IO |-> io, Err |-> out.Err, Step |-> out.Step])
        /\ UNCHANGED <<series, direction, analysisFiles, aggregate, tickets,
                       aggLog, mongoEnabled, watcherVars, procVars, syncVars>>

\* The invocation with the storage working.
UpdateSellerProfile(analysis) == UpdateSellerProfileIO(analysis, NoFaults)

\* One series of updateTrends on its own: append the call's point, then
\* recompute the direction of the series.
AppendTrendPoint(value) ==
    /\ series' = Append(series, TrendPoint(1, value, "", "c1"))
    /\ direction' = calculateTrendDirection(series')
    /\ UNCHANGED <<stored, calls, clock, analysisFiles, aggregate, tickets, aggLog>>
    /\ UNCHANGED <<profileIO, watcherVars, procVars, syncVars>>

----------------------------------------------------------------------------
(* Aggregation: buildAggregate, generateTickets, RunAggregation (service.go) *)

maxTickets == 5

minBucketCount == 3

\* The analyses of the date among the stored files.
LoadAllAnalysisForDate(files, date) ==
    LET keys == {k \in DOMAIN files : files[k].Date = date}
    IN  [k \in keys |-> files[k]]

\* The analyses of the date in the analyses collection, which holds one
\* document per call id.
GetAllAnalysesForDateFromMongo(coll, date) ==
    LET ids == {c \in DOMAIN coll : coll[c].Date = date}
    IN  [k \in {FileKey(coll[c].SellerID, c) : c \in ids} |-> coll[k.CallID]]

\* The load at the head of RunAggregation: MongoDB first when it is connected,
\* the local files when it is not or when it returned nothing.
loadAnalyses(files, coll, mongo, date) ==
    LET fromMongo == IF mongo THEN GetAllAnalysesForDateFromMongo(coll, date) ELSE <<>>
    IN  IF DOMAIN fromMongo = {} THEN LoadAllAnalysisForDate(files, date) ELSE fromMongo

\* Every issue of the batch, as <<file key, index>>.
IssueRefs(analyses) ==
    UNION {{<<k, i>> : i \in 1..Len(analyses[k].Issues)} : k \in DOMAIN analyses}

IssueAt(analyses, ref) == analyses[ref[1]].Issues[ref[2]]

BucketRefs(analyses, bucket) ==
    {r \in IssueRefs(analyses) : IssueAt(analyses, r).Bucket = bucket}

bucketProblems(analyses, bucket) ==
    LET refs == BucketRefs(analyses, bucket)
    IN  [p \in {IssueAt(analyses, r).Problem : r \in refs} |->
            Cardinality({r \in refs : IssueAt(analyses, r).Problem = p})]

bucketSellers(analyses, bucket) ==
    {analyses[r[1]].SellerID : r \in BucketRefs(analyses, bucket)}

bucketSeverity(analyses, bucket) ==
    LET refs == BucketRefs(analyses, bucket)
    IN  [sev \in {"critical", "high", "medium", "low"} |->
            Cardinality({r \in refs : IssueAt(analyses, r).Severity = sev})]

ProblemCount(problem, count) ==
    [Problem |-> problem, Count |-> count, Severity |-> "medium"]

\* BucketSummary with TotalCount counting every issue of the bucket.
bucketSummaryCountsAll(analyses, bucket, sorted) ==
    LET problems == bucketProblems(analyses, bucket)
        top      == Take(sorted, 5)
    IN  [Bucket            |-> bucket,
         TotalCount        |-> Cardinality(BucketRefs(analyses, bucket)),
         AffectedSellers   |-> Cardinality(bucketSellers(analyses, bucket)),
         TopProblems       |-> [i \in 1..Len(top) |-> ProblemCount(top[i], problems[top[i]])],
         SeverityBreakdown |-> bucketSeverity(analyses, bucket)]

\* The BucketSummary of a bucket, from its problems as sort.Slice left them.
bucketSummary(analyses, bucket, sorted) ==
    LET problems == bucketProblems(analyses, bucket)
        top      == Take(sorted, 5)
    IN  [Bucket            |-> bucket,
         TotalCount        |-> SumSeq([i \in 1..Len(top) |-> problems[top[i]]]),
         AffectedSellers   |-> Cardinality(bucketSellers(analyses, bucket)),
         TopProblems       |-> [i \in 1..Len(top) |-> ProblemCount(top[i], problems[top[i]])],
         SeverityBreakdown |-> bucketSeverity(analyses, bucket)]

\* The maps FeatureBuckets can end as: one summary per bucket, for every way
\* the sorts can order equal counts.
RECURSIVE featureBuckets(_, _)
featureBuckets(analyses, buckets) ==
    IF buckets = {} THEN {<<>>}
    ELSE
        LET b == CHOOSE x \in buckets : TRUE
        IN  {(b :> bucketSummary(analyses, b, sorted)) @@ rest :
                sorted \in DescendingOrders(bucketProblems(analyses, b)),
                rest \in featureBuckets(analyses, buckets \ {b})}

\* The aggregates buildAggregate can return for a batch.
buildAggregate(date, analyses, now) ==
    LET refs == IssueRefs(analyses)
    IN  {[Date           |-> date,
          TotalCalls     |-> Cardinality(DOMAIN analyses),
          TotalIssues    |-> Cardinality(refs),
          FeatureBuckets |-> fb,
          GeneratedAt    |-> now] :
            fb \in featureBuckets(analyses, {IssueAt(analyses, r).Bucket : r \in refs})}

\* The category names offered to the analysis: var FeatureBuckets.
FeatureBuckets ==
    {"Lead Management", "Lead Quality", "Lead Quantity",
     "Promoted Listing / Lead Priority", "Visibility / Ranking",
     "TrustSEAL / Verification", "Catalog / Storefront Setup",
     "Buyer Interaction", "BizInsight Analytics", "Billing & Renewal",
     "Payments", "App / Platform Usability", "Support / Training",
     "Seller Verification", "Compliance / Documentation",
     "Category-City Targeting", "Communication", "Account / Dashboard",
     "Other"}

\* The runes of a category name, as the loop over the string sees them.
Runes(s) ==
    CASE s = "Lead Management" ->
             <<"L", "e", "a", "d", " ", "M", "a", "n", "a", "g", "e", "m",
             "e", "n", "t">>
      [] s = "Lead Quality" ->
             <<"L", "e", "a", "d", " ", "Q", "u", "a", "l", "i", "t", "y">>
      [] s = "Lead Quantity" ->
             <<"L", "e", "a", "d", " ", "Q", "u", "a", "n", "t", "i", "t",
             "y">>
      [] s = "Promoted Listing / Lead Priority" ->
             <<"P", "r", "o", "m", "o", "t", "e", "d", " ", "L", "i", "s",
             "t", "i", "n", "g", " ", "/", " ", "L", "e", "a", "d", " ", "P",
             "r", "i", "o", "r", "i", "t", "y">>
      [] s = "Visibility / Ranking" ->
             <<"V", "i", "s", "i", "b", "i", "l", "i", "t", "y", " ", "/",
             " ", "R", "a", "n", "k", "i", "n", "g">>
      [] s = "TrustSEAL / Verification" ->
             <<"T", "r", "u", "s", "t", "S", "E", "A", "L", " ", "/", " ",
             "V", "e", "r", "i", "f", "i", "c", "a", "t", "i", "o", "n">>
      [] s = "Catalog / Storefront Setup" ->
             <<"C", "a", "t", "a", "l", "o", "g", " ", "/", " ", "S", "t",
             "o", "r", "e", "f", "r", "o", "n", "t", " ", "S", "e", "t", "u",
             "p">>
      [] s = "Buyer Interaction" ->
             <<"B", "u", "y", "e", "r", " ", "I", "n", "t", "e", "r", "a",
             "c", "t", "i", "o", "n">>
      [] s = "BizInsight Analytics" ->
             <<"B", "i", "z", "I", "n", "s", "i", "g", "h", "t", " ", "A",
             "n", "a", "l", "y", "t", "i", "c", "s">>
      [] s = "Billing & Renewal" ->
             <<"B", "i", "l", "l", "i", "n", "g", " ", "&", " ", "R", "e",
             "n", "e", "w", "a", "l">>
      [] s = "Payments" ->
             <<"P", "a", "y", "m", "e", "n", "t", "s">>
      [] s = "App / Platform Usability" ->
             <<"A", "p", "p", " ", "/", " ", "P", "l", "a", "t", "f", "o",
             "r", "m", " ", "U", "s", "a", "b", "i", "l", "i", "t", "y">>
      [] s = "Support / Training" ->
             <<"S", "u", "p", "p", "o", "r", "t", " ", "/", " ", "T", "r",
             "a", "i", "n", "i", "n", "g">>
      [] s = "Seller Verification" ->
             <<"S", "e", "l", "l", "e", "r", " ", "V", "e", "r", "i", "f",
             "i", "c", "a", "t", "i", "o", "n">>
      [] s = "Compliance / Documentation" ->
             <<"C", "o", "m", "p", "l", "i", "a", "n", "c", "e", " ", "/",
             " ", "D", "o", "c", "u", "m", "e", "n", "t", "a", "t", "i", "o",
             "n">>
      [] s = "Category-City Targeting" ->
             <<"C", "a", "t", "e", "g", "o", "r", "y", "-", "C", "i", "t",
             "y", " ", "T", "a", "r", "g", "e", "t", "i", "n", "g">>
      [] s = "Communication" ->
             <<"C", "o", "m", "m", "u", "n", "i", "c", "a", "t", "i", "o",
             "n">>
      [] s = "Account / Dashboard" ->
             <<"A", "c", "c", "o", "u", "n", "t", " ", "/", " ", "D", "a",
             "s", "h", "b", "o", "a", "r", "d">>
      [] s = "Other" ->
             <<"O", "t", "h", "e", "r">>

Letters ==
    {"a", "b", "c", "d", "e", "f", "g", "h", "i", "j", "k", "l", "m", "n",
     "o", "p", "q", "r", "s", "t", "u", "v", "w", "x", "y", "z", "A", "B",
     "C", "D", "E", "F", "G", "H", "I", "J", "K", "L", "M", "N", "O", "P",
     "Q", "R", "S", "T", "U", "V", "W", "X", "Y", "Z"}

Digits == {"0", "1", "2", "3", "4", "5", "6", "7", "8", "9"}

RECURSIVE Join(_)
Join(runes) == IF runes = <<>> THEN "" ELSE Head(runes) \o Join(Tail(runes))

\* The identifier without the category in it.
ticketIDDateOnly(date, bucket) == date \o "-01"

\* sanitize replaces every rune that is neither a letter nor a digit by '_'.
sanitize(s) ==
    Join([i \in 1..Len(Runes(s)) |->
            IF Runes(s)[i] \in Letters \cup Digits THEN Runes(s)[i] ELSE "_"])

ticketID(date, bucket) == date \o "-" \o sanitize(bucket) \o "-01"

\* ticketSeverity without the medium tier.
ticketSeverityNoMedium(totalCount) ==
    IF totalCount >= 10 THEN "critical" ELSE "high"

ticketSeverity(totalCount) ==
    IF totalCount >= 10 THEN "critical"
    ELSE IF totalCount >= 5 THEN "high"
    ELSE "medium"

\* newTicket numbering the identifier by the rank in the run instead of the
\* fixed suffix.
newTicketRankInID(date, summary, priority, now) ==
    [TicketID      |-> date \o "-" \o sanitize(summary.Bucket) \o "-" \o ToString(priority),
     Date          |-> date,
     FeatureBucket |-> summary.Bucket,
     Priority      |-> priority,
     Title         |-> <<summary.Bucket,
                         IF Len(summary.TopProblems) > 0
                             THEN summary.TopProblems[1].Problem
                             ELSE "Multiple issues reported",
                         summary.TotalCount, summary.AffectedSellers>>,
     TopProblems   |-> summary.TopProblems,
     AffectedCount |-> summary.TotalCount,
     Severity      |-> ticketSeverity(summary.TotalCount),
     Status        |-> "open",
     CreatedAt     |-> now]

newTicket(date, summary, priority, now) ==
    [TicketID      |-> ticketID(date, summary.Bucket),
     Date          |-> date,
     FeatureBucket |-> summary.Bucket,
     Priority      |-> priority,
     Title         |-> <<summary.Bucket,
                         IF Len(summary.TopProblems) > 0
                             THEN summary.TopProblems[1].Problem
                             ELSE "Multiple issues reported",
                         summary.TotalCount, summary.AffectedSellers>>,
     TopProblems   |-> summary.TopProblems,
     AffectedCount |-> summary.TotalCount,
     Severity      |-> ticketSeverity(summary.TotalCount),
     Status        |-> "open",
     CreatedAt     |-> now]

\* generateTickets without the cut at maxTickets.
generateTicketsNoCap(date, agg, now) ==
    LET fb          == agg.FeatureBuckets
        significant == {b \in DOMAIN fb : fb[b].TotalCount >= minBucketCount}
    IN  {[i \in 1..Len(sorted) |-> newTicket(date, fb[sorted[i]], i, now)] :
            sorted \in DescendingOrders([b \in significant |-> fb[b].TotalCount])}

\* The ticket lists generateTickets can return for an aggregate.
generateTickets(date, agg, now) ==
    LET fb          == agg.FeatureBuckets
        significant == {b \in DOMAIN fb : fb[b].TotalCount >= minBucketCount}
    IN  {LET kept == Take(sorted, maxTickets)
         IN  [i \in 1..Len(kept) |-> newTicket(date, fb[kept[i]], i, now)] :
            sorted \in DescendingOrders([b \in significant |-> fb[b].TotalCount])}

\* SaveTicket writes the ticket under its id, replacing a ticket of that id.
SaveTicket(store, ticket) ==
    {t \in store : t.TicketID # ticket.TicketID} \cup {ticket}

RECURSIVE SaveTickets(_, _)
SaveTickets(store, list) ==
    IF list = <<>> THEN store
    ELSE SaveTickets(SaveTicket(store, Head(list)), Tail(list))

\* SyncAnalysis starts a goroutine that pushes the analysis to MongoDB, when
\* MongoDB is connected: the analyses waiting to be pushed after the call.
SyncAnalysis(pending, ar) == IF mongoEnabled THEN pending \cup {ar} ELSE pending

\* ReplaceOne with upsert, filtered by call_id.
ReplaceOne(coll, ar) == (ar.CallID :> ar) @@ coll

\* The goroutine of SyncAnalysis for ar writes its document.
SyncAnalysisStep(ar) ==
    /\ ar \in pendingSync
    /\ pendingSync' = pendingSync \ {ar}
    /\ mongoAnalyses' = ReplaceOne(mongoAnalyses, ar)
    /\ UNCHANGED <<stored, calls, clock, series, direction, analysisFiles, aggregate,
                   tickets, aggLog, profileIO, watcherVars, procVars>>

\* SaveAnalysisWithGluserID writes the analysis under its seller and call id
\* and starts the push to MongoDB.
SaveAnalysisWithGluserID(key, issues) ==
    /\ analysisFiles' = (key :> AnalysisResult(key, AggDate, issues)) @@ analysisFiles
    /\ pendingSync' = SyncAnalysis(pendingSync, AnalysisResult(key, AggDate, issues))
    /\ aggLog' = Append(aggLog, [Op |-> "save", Key |-> key])
    /\ UNCHANGED <<stored, calls, clock, series, direction, aggregate, tickets>>
    /\ UNCHANGED <<profileIO, watcherVars, procVars, mongoAnalyses>>

\* The list without its k-th element (the whole list when it has none).
Without(list, k) ==
    IF k \in 1..Len(list)
        THEN [i \in 1..(Len(list) - 1) |-> IF i < k THEN list[i] ELSE list[i + 1]]
        ELSE list

\* The outcomes of RunAggregation(date) over the stores given, at time now,
\* under the storage behaviour io: what it returns (Err), the stores it leaves
\* and the entry of the log. No analyses: an error. A failed save of the
\* aggregate: an error with file storage, a log line with MongoDB. A failed
\* save of a ticket: a log line.
runAggregation(files, coll, mongo, storedAgg, storedTickets, date, now, io) ==
    LET analyses == loadAnalyses(files, coll, mongo, date)
    IN  IF DOMAIN analyses = {}
        THEN {[Err |-> TRUE, Aggregate |-> storedAgg, Tickets |-> storedTickets, Now |-> now - 1,
               Entry |-> [Op |-> "run", Err |-> TRUE, Reason |-> "no analyses found", IO |-> io]]}
        ELSE UNION {
            IF io.SaveAggregate = "error" /\ ~mongo
            THEN {[Err |-> TRUE, Aggregate |-> storedAgg, Tickets |-> storedTickets, Now |-> now,
                   Entry |-> [Op |-> "run", Err |-> TRUE,
                              Reason |-> "failed to save aggregate", IO |-> io]]}
            ELSE {[Err |-> FALSE,
                   Aggregate |-> IF io.SaveAggregate = "ok" THEN <<agg>> ELSE storedAgg,
                   Tickets |-> SaveTickets(storedTickets, Without(generated, io.FailedTicket)),
                   Now |-> now,
                   Entry |-> [Op |-> "run", Err |-> FALSE, IO |-> io, Analyses |-> analyses,
                              Aggregate |-> agg, Tickets |-> generated]] :
                     generated \in generateTickets(date, agg, now)} :
            agg \in buildAggregate(date, analyses, now)}

RunAggregationIO(date, io) ==
    \E out \in runAggregation(analysisFiles, mongoAnalyses, mongoEnabled, aggregate, tickets,
                              date, clock + 1, io) :
        /\ aggregate' = out.Aggregate
        /\ tickets' = out.Tickets
        /\ aggLog' = Append(aggLog, out.Entry)
        /\ clock' = out.Now
        /\ UNCHANGED <<stored, calls, series, direction, analysisFiles>>
        /\ UNCHANGED <<profileIO, watcherVars, procVars, syncVars>>

\* The run with every save succeeding.
RunAggregation(date) == RunAggregationIO(date, NoAggFaults)

----------------------------------------------------------------------------
(* The transcript watcher: processTranscript, triggerAggregation (watcher)  *)

aggregateThreshold == 10

\* Without the reset of the counter in triggerAggregation.
thresholdCheckNoReset(count) ==
    IF count + 1 >= aggregateThreshold
        THEN [Count |-> count + 1, Trigger |-> TRUE]
        ELSE [Count |-> count + 1, Trigger |-> FALSE]

\* The end of processTranscript: the counter is incremented, and at the
\* threshold triggerAggregation resets it and runs aggregation.
thresholdCheck(count) ==
    IF count + 1 >= aggregateThreshold
        THEN [Count |-> 0, Trigger |-> TRUE]
        ELSE [Count |-> count + 1, Trigger |-> FALSE]

\* One processTranscript of the unprocessed file f going as outcome says; step
\* is the record of the call kept in lastOutcome.
processTranscriptLogged(f, outcome, step) ==
    LET io   == IF outcome = "profile error" THEN StorageIO("ok", "ok", "error") ELSE NoFaults
        key  == FileKey(GluserID, ToString(f))
        ar   == AnalysisResult(key, AggDate, WatcherIssues)
        files == IF outcome = "ok" THEN (key :> ar) @@ analysisFiles ELSE analysisFiles
        pushes == IF outcome = "ok" THEN SyncAnalysis(pendingSync, ar) ELSE pendingSync
        check == thresholdCheck(analysisCount)
    IN  /\ f \notin processedFiles
        /\ IF outcome \in {"read error", "parse error", "analysis error"}
           THEN /\ lastOutcome' = step
                /\ UNCHANGED <<stored, calls, clock, analysisFiles, aggregate, tickets,
                               aggLog, mongoStored, updateLog, analysisCount,
                               processedFiles, syncVars>>
           ELSE IF outcome = "empty"
           THEN /\ processedFiles' = processedFiles \cup {f}
                /\ lastOutcome' = step
                /\ UNCHANGED <<stored, calls, clock, analysisFiles, aggregate, tickets,
                               aggLog, mongoStored, updateLog, analysisCount, syncVars>>
           ELSE \E up \in {updateSellerProfile(WatcherAnalysis(f), io, clock + 1)} :
           IF up.Err
           THEN /\ stored' = up.File
                /\ mongoStored' = up.Mongo
                /\ clock' = up.Now
                /\ updateLog' = Append(updateLog, [IO |-> io, Err |-> TRUE, Step |-> up.Step])
                /\ lastOutcome' = step
                /\ UNCHANGED <<calls, analysisFiles, aggregate, tickets, aggLog,
                               analysisCount, processedFiles, syncVars>>
           ELSE /\ stored' = up.File
                /\ mongoStored' = up.Mongo
                /\ calls' = Append(calls, WatcherAnalysis(f))
                /\ updateLog' = Append(updateLog, [IO |-> io, Err |-> FALSE, Step |-> up.Step])
                /\ analysisFiles' = files
                /\ processedFiles' = processedFiles \cup {f}
                /\ analysisCount' = check.Count
                /\ lastOutcome' = [step EXCEPT !.Triggered = check.Trigger]
                /\ IF check.Trigger
                   \* The push started a moment ago has written its document
                   \* when RunAggregation reads the collection, or it has not.
                   THEN \E written \in SUBSET (pushes \ pendingSync) :
                        \E coll \in {IF written = {} THEN mongoAnalyses
                                                     ELSE ReplaceOne(mongoAnalyses, ar)} :
                        \E run \in runAggregation(files, coll, mongoEnabled, aggregate,
                                                  tickets, AggDate, up.Now + 1, NoAggFaults) :
                           /\ pendingSync' = pushes \ written
                           /\ mongoAnalyses' = coll
                           /\ aggregate' = run.Aggregate
                           /\ tickets' = run.Tickets
                           /\ aggLog' = Append(aggLog, run.Entry)
                           /\ clock' = run.Now
                   ELSE /\ clock' = up.Now
                        /\ pendingSync' = pushes
                        /\ UNCHANGED <<aggregate, tickets, aggLog, mongoAnalyses>>
        /\ UNCHANGED <<series, direction, mongoEnabled, procVars>>

processTranscript(f, outcome) ==
    processTranscriptLogged(f, outcome,
        [Step |-> lastOutcome.Step + 1,
         Faults |-> lastOutcome.Faults + (IF outcome = "ok" THEN 0 ELSE 1),
         File |-> f, Outcome |-> outcome, Triggered |-> FALSE])

----------------------------------------------------------------------------
(* UpdateSellerProfile and RunAggregation step by step, per goroutine       *)

InFlight == {u \in Updaters : updating[u] # <<>>}

\* Goroutine u enters UpdateSellerProfile(analysis) and loads the profile.
BeginUpdate(u, analysis) ==
    /\ updating[u] = <<>>
    /\ updating' = [updating EXCEPT ![u] =
                       <<[Analysis |-> analysis, Loaded |-> LoadSellerProfile(NoFaults).Profile]>>]
    /\ UNCHANGED <<stored, calls, clock, series, direction, analysisFiles, aggregate,
                   tickets, aggLog, profileIO, watcherVars, running, provenance, syncVars>>

\* Goroutine u reconciles the call into the profile it loaded and saves it.
FinishUpdate(u) ==
    /\ updating[u] # <<>>
    /\ \E out \in {saveOutcome(
                       SaveSellerProfile(
                           reconcile(updating[u][1].Loaded, GluserID,
                                     updating[u][1].Analysis, clock + 1),
                           clock + 1),
                       NoFaults, clock + 1)} :
           /\ stored' = out.File
           /\ mongoStored' = out.Mongo
           /\ calls' = Append(calls, updating[u][1].Analysis)
           /\ clock' = out.Now
           /\ updateLog' = Append(updateLog, [IO |-> NoFaults, Err |-> FALSE, Step |-> "save"])
    /\ updating' = [updating EXCEPT ![u] = <<>>]
    /\ UNCHANGED <<series, direction, analysisFiles, aggregate, tickets, aggLog,
                   mongoEnabled, watcherVars, running, provenance, syncVars>>

Busy == {r \in Runners : running[r] # <<>>}

\* Goroutine r enters RunAggregation(date): it loads the analyses of the date
\* and builds the aggregate, or returns the error when there are none.
BeginRun(r, date) ==
    LET analyses == loadAnalyses(analysisFiles, mongoAnalyses, mongoEnabled, date)
        now      == clock + 1
    IN  /\ running[r] = <<>>
        /\ clock' = now
        /\ IF DOMAIN analyses = {}
           THEN /\ aggLog' = Append(aggLog, [Op |-> "run", Err |-> TRUE,
                                             Reason |-> "no analyses found",
                                             IO |-> NoAggFaults])
                /\ UNCHANGED running
           ELSE /\ \E agg \in buildAggregate(date, analyses, now) :
                       running' = [running EXCEPT ![r] =
                                      <<[ID |-> <<r, now>>, PC |-> "save aggregate",
                                         Analyses |-> analyses, Aggregate |-> agg,
                                         Tickets |-> <<>>]>>]
                /\ UNCHANGED aggLog
        /\ UNCHANGED <<stored, calls, series, direction, analysisFiles, aggregate, tickets,
                       profileIO, watcherVars, updating, provenance, syncVars>>

\* Goroutine r saves its aggregate and generates its tickets.
SaveAggregateStep(r, date) ==
    /\ running[r] # <<>>
    /\ running[r][1].PC = "save aggregate"
    /\ aggregate' = <<running[r][1].Aggregate>>
    /\ provenance' = [provenance EXCEPT !.Aggregate = running[r][1].ID]
    /\ \E generated \in generateTickets(date, running[r][1].Aggregate, running[r][1].ID[2]) :
          running' = [running EXCEPT ![r] =
                         <<[running[r][1] EXCEPT !.PC = "save tickets",
                                                 !.Tickets = generated]>>]
    /\ UNCHANGED <<stored, calls, clock, series, direction, analysisFiles, tickets, aggLog,
                   profileIO, watcherVars, updating, syncVars>>

\* Goroutine r saves its tickets and returns.
SaveTicketsStep(r) ==
    /\ running[r] # <<>>
    /\ running[r][1].PC = "save tickets"
    /\ tickets' = SaveTickets(tickets, running[r][1].Tickets)
    /\ provenance' = [provenance EXCEPT !.Tickets = running[r][1].ID]
    /\ aggLog' = Append(aggLog, [Op |-> "run", Err |-> FALSE, IO |-> NoAggFaults,
                                 Analyses |-> running[r][1].Analyses,
                                 Aggregate |-> running[r][1].Aggregate,
                                 Tickets |-> running[r][1].Tickets])
    /\ running' = [running EXCEPT ![r] = <<>>]
    /\ UNCHANGED <<stored, calls, clock, series, direction, analysisFiles, aggregate,
                   profileIO, watcherVars, updating, syncVars>>

----------------------------------------------------------------------------
(* Specifications                                                          *)

\* The watcher has processed nothing and no goroutine is inside
\* UpdateSellerProfile or RunAggregation.
Idle ==
    /\ analysisCount = 0
    /\ processedFiles = {}
    /\ lastOutcome = [Step |-> 0, Faults |-> 0, File |-> 0, Outcome |-> "",
                      Triggered |-> FALSE]
    /\ updating = [u \in Updaters |-> <<>>]
    /\ running = [r \in Runners |-> <<>>]
    /\ mongoAnalyses = <<>>
    /\ pendingSync = {}
    /\ provenance = [Aggregate |-> <<>>, Tickets |-> <<>>]

Init ==
    /\ stored = NotFound
    /\ calls = <<>>
    /\ clock = 0
    /\ series = <<>>
    /\ direction = ""
    /\ analysisFiles = NoFiles
    /\ aggregate = <<>>
    /\ tickets = {}
    /\ aggLog = <<>>
    /\ mongoEnabled = FALSE
    /\ mongoStored = NotFound
    /\ updateLog = <<>>
    /\ Idle

Next == Len(calls) < MaxCalls /\ \E a \in Analyses : UpdateSellerProfile(a)

Spec == Init /\ [][Next]_vars

NextStatus ==
    Len(calls) < MaxStatusCalls /\ \E a \in StatusAnalyses : UpdateSellerProfile(a)

SpecStatus == Init /\ [][NextStatus]_vars

\* MongoDB connected at startup or not (main falls back to local files); an
\* account no profile is stored for.
InitStorage ==
    /\ stored = NotFound
    /\ calls = <<>>
    /\ clock = 0
    /\ series = <<>>
    /\ direction = ""
    /\ analysisFiles = NoFiles
    /\ aggregate = <<>>
    /\ tickets = {}
    /\ aggLog = <<>>
    /\ mongoEnabled \in BOOLEAN
    /\ mongoStored = NotFound
    /\ updateLog = <<>>
    /\ Idle

NextStorage ==
    /\ Len(updateLog) < MaxStorageCalls
    /\ \E a \in StorageAnalyses, io \in StorageIOs : UpdateSellerProfileIO(a, io)

SpecStorage == InitStorage /\ [][NextStorage]_vars

\* The transcripts the watcher finds: it handles the unprocessed files in the
\* order of their names, and a file it failed on stays unprocessed.
TranscriptFiles == 1..MaxWatcherSteps

NextWatcher ==
    /\ lastOutcome.Step < MaxWatcherSteps
    /\ \E f \in TranscriptFiles, outcome \in Outcomes :
          /\ \A g \in TranscriptFiles : g < f => g \in processedFiles
          /\ outcome = "ok" \/ lastOutcome.Faults < MaxWatcherFaults
          /\ processTranscript(f, outcome)

SpecWatcher == Init /\ [][NextWatcher]_vars

\* The name of the transcript file f without its extension: the fileID of
\* checkForNewTranscripts, gluser_{seller_id}_call_{call_id}.
TranscriptName(f) == "gluser_" \o GluserID \o "_call_" \o ToString(f)

\* The name of an analysis file without ".analysis.json".
AnalysisName(key) == "gluser_" \o key.SellerID \o "_call_" \o key.CallID

\* The names loadExistingAnalyses marks as processed.
loadExistingAnalyses == {AnalysisName(k) : k \in DOMAIN analysisFiles}

\* The process is started again: NewTranscriptWatcher and Start. The counter
\* and the processed set of the old process are gone; the set is rebuilt from
\* the analysis files.
Restart ==
    /\ processedFiles' = {f \in TranscriptFiles : TranscriptName(f) \in loadExistingAnalyses}
    /\ analysisCount' = 0
    /\ UNCHANGED <<stored, calls, clock, series, direction, analysisFiles, aggregate,
                   tickets, aggLog, profileIO, lastOutcome, procVars, syncVars>>

NextRestart ==
    \/ /\ lastOutcome.Step < MaxRestartSteps
       /\ \E f \in TranscriptFiles, outcome \in Outcomes :
             /\ \A g \in TranscriptFiles : g < f => g \in processedFiles
             /\ outcome = "ok" \/ lastOutcome.Faults < MaxWatcherFaults
             /\ processTranscript(f, outcome)
    \/ Restart

SpecRestart == Init /\ [][NextRestart]_vars

\* The poll loop over a directory of MaxPollFiles transcripts. The first file
\* never gets through (it cannot be read, does not parse, or its analysis
\* fails, on every poll); the others parse and have text, and their
\* processing fails at most MaxPollFaults times in all.
PollFiles == 1..MaxPollFiles

BadFile == 1

PollOutcomes(f) ==
    IF f = BadFile THEN {"read error", "parse error", "analysis error"}
    ELSE {"analysis error", "profile error", "analysis save error", "ok"}

Unprocessed == PollFiles \ processedFiles

\* A poll that starts over from the first file after every file it handled.
NextToPollFromStart == MinOf(Unprocessed)

\* The file the loop of checkForNewTranscripts handles next: the next
\* unprocessed file after the one it handled last, and when the list is
\* through, the first unprocessed file of the next poll.
NextToPoll ==
    LET later == {g \in Unprocessed : g > lastOutcome.File}
    IN  IF later # {} THEN MinOf(later) ELSE MinOf(Unprocessed)

NextPoll ==
    \E f \in PollFiles, outcome \in Outcomes :
        /\ f = NextToPoll
        /\ outcome \in PollOutcomes(f)
        /\ (f # BadFile /\ outcome # "ok") => lastOutcome.Faults < MaxPollFaults
        /\ processTranscriptLogged(f, outcome,
               [Step |-> (lastOutcome.Step + 1) % 2,
                Faults |-> lastOutcome.Faults
                              + (IF f # BadFile /\ outcome # "ok" THEN 1 ELSE 0),
                File |-> f, Outcome |-> outcome, Triggered |-> FALSE])

\* The ticker of watchLoop fires every pollInterval and the loop runs in its
\* own goroutine: a poll step that stays possible is taken.
SpecPoll == Init /\ [][NextPoll]_vars /\ WF_vars(NextPoll)

\* The watcher with or without MongoDB, every transcript going through, and
\* the goroutines of SyncAnalysis writing their documents in any order, at most
\* MaxPendingSync of them waiting when the next transcript is taken up.
InitSync ==
    /\ stored = NotFound
    /\ calls = <<>>
    /\ clock = 0
    /\ series = <<>>
    /\ direction = ""
    /\ analysisFiles = NoFiles
    /\ aggregate = <<>>
    /\ tickets = {}
    /\ aggLog = <<>>
    /\ mongoEnabled \in BOOLEAN
    /\ mongoStored = NotFound
    /\ updateLog = <<>>
    /\ Idle

NextSync ==
    \/ /\ lastOutcome.Step < MaxWatcherSteps
       /\ Cardinality(pendingSync) < MaxPendingSync
       /\ \E f \in TranscriptFiles :
             /\ \A g \in TranscriptFiles : g < f => g \in processedFiles
             /\ processTranscript(f, "ok")
    \/ \E ar \in pendingSync : SyncAnalysisStep(ar)

SpecSync == InitSync /\ [][NextSync]_vars

NextSerial ==
    \E u \in Updaters :
        \/ /\ Len(calls) + Cardinality(InFlight) < MaxSerialCalls
           /\ \E a \in SerialAnalyses : BeginUpdate(u, a)
        \/ FinishUpdate(u)

SpecSerial == Init /\ [][NextSerial]_vars

\* The analyses of a date are stored, nothing was aggregated yet.
InitRuns ==
    /\ stored = NotFound
    /\ calls = <<>>
    /\ clock = 0
    /\ series = <<>>
    /\ direction = ""
    /\ analysisFiles = StoreOf(ThreeBucketIssues, ThreeBucketIssues, OneBucketIssues)
    /\ aggregate = <<>>
    /\ tickets = {}
    /\ aggLog = <<>>
    /\ mongoEnabled = FALSE
    /\ mongoStored = NotFound
    /\ updateLog = <<>>
    /\ Idle

NextRuns ==
    \E r \in Runners :
        \/ clock < MaxRuns /\ BeginRun(r, AggDate)
        \/ SaveAggregateStep(r, AggDate)
        \/ SaveTicketsStep(r)

SpecRuns == InitRuns /\ [][NextRuns]_vars

NextOrder ==
    Len(calls) < MaxOrderCalls /\ \E a \in OrderAnalyses : UpdateSellerProfile(a)

SpecOrder == Init /\ [][NextOrder]_vars

\* Calls about no issue, one category, one category twice and two categories,
\* under either call id, with and without prompt resolution.
IssueAnalyses ==
    {Analysis(c, 1, l, "Negative", 2, r, "high") :
        c \in CallIDs,
        l \in {<<>>, <<Issue("Billing", "low")>>,
               <<Issue("Billing", "low"), Issue("Billing", "high")>>,
               <<Issue("Billing", "low"), Issue("Payments", "low")>>},
        r \in BOOLEAN}

NextIssues ==
    Len(calls) < MaxIssueCalls /\ \E a \in IssueAnalyses : UpdateSellerProfile(a)

SpecIssues == Init /\ [][NextIssues]_vars

NextTrend == Len(series) < MaxPoints /\ \E v \in TrendValues : AppendTrendPoint(v)

SpecTrend == Init /\ [][NextTrend]_vars

InitAgg ==
    /\ stored = NotFound
    /\ calls = <<>>
    /\ clock = 0
    /\ series = <<>>
    /\ direction = ""
    /\ analysisFiles \in InitialStores
    /\ aggregate = <<>>
    /\ tickets = {}
    /\ aggLog = <<>>
    /\ mongoEnabled = FALSE
    /\ mongoStored = NotFound
    /\ updateLog = <<>>
    /\ Idle

NextAgg ==
    /\ Len(aggLog) < MaxAggSteps
    /\ \/ \E k \in FileKeys, l \in AggIssueLists : SaveAnalysisWithGluserID(k, l)
       \/ RunAggregation(AggDate)

SpecAgg == InitAgg /\ [][NextAgg]_vars

\* Aggregation of one analysis that reports two of the listed categories three
\* times each, for every pair of categories.
PairIssues(b1, b2) ==
    Repeat(3, ReportedIssue(b1, "p1", "high")) \o Repeat(3, ReportedIssue(b2, "p1", "high"))

NextIDs ==
    /\ Len(aggLog) < MaxIDSteps
    /\ \/ /\ analysisFiles = NoFiles
          /\ \E b1, b2 \in FeatureBuckets :
                 SaveAnalysisWithGluserID(FileKey("g1", "c1"), PairIssues(b1, b2))
       \/ RunAggregation(AggDate)

SpecIDs == Init /\ [][NextIDs]_vars

\* Aggregation with MongoDB connected or not, over the stores of InitAgg, with
\* saves that fail.
InitAggIO ==
    /\ stored = NotFound
    /\ calls = <<>>
    /\ clock = 0
    /\ series = <<>>
    /\ direction = ""
    /\ analysisFiles \in InitialStores
    /\ aggregate = <<>>
    /\ tickets = {}
    /\ aggLog = <<>>
    /\ mongoEnabled \in BOOLEAN
    /\ mongoStored = NotFound
    /\ updateLog = <<>>
    /\ Idle

NextAggIO ==
    /\ Len(aggLog) < MaxAggIOSteps
    /\ \/ SaveAnalysisWithGluserID(FileKey("g1", "c1"), OneIssue)
       \/ \E io \in AggIOs : RunAggregationIO(AggDate, io)

SpecAggIO == InitAggIO /\ [][NextAggIO]_vars

----------------------------------------------------------------------------
(* Properties                                                              *)

HasProfile == stored # NotFound

Profile == stored[1]

Status == Profile.CurrentStatus

LastCall == calls[Len(calls)]

Max(a, b) == IF a >= b THEN a ELSE b

Min(a, b) == IF a <= b THEN a ELSE b

RecurringActive ==
    Cardinality({i \in 1..Len(Profile.ActiveIssues) : Profile.ActiveIssues[i].IsRecurring})

\* C1: after every UpdateSellerProfile the health score is an integer in 0..100 and
\* the label is Healthy iff score >= 70, At Risk iff 40 <= score <= 69, Critical
\* iff score < 40.
C1_ScoreInRangeLabelConsistent ==
    HasProfile =>
        /\ Status.HealthScore \in 0..100
        /\ Status.HealthLabel \in {"Healthy", "At Risk", "Critical"}
        /\ (Status.HealthLabel = "Healthy" <=> Status.HealthScore >= 70)
        /\ (Status.HealthLabel = "At Risk" <=> Status.HealthScore \in 40..69)
        /\ (Status.HealthLabel = "Critical" <=> Status.HealthScore < 40)

\* The adjustments of the last call add up to more than 100, and the score is 100.
C1_Witness ==
    /\ HasProfile
    /\ LastCall.Sentiment = "Positive" /\ LastCall.SatisfactionScore = 9
    /\ LastCall.IsLikelyToChurn = "low" /\ Profile.ActiveIssues = <<>>
    /\ Status.HealthScore = 100 /\ Status.HealthLabel = "Healthy"

\* C2: the health score equals clamp(50 + s + (satisfaction - 5) * 4 + c
\* - min(5 * open, 30) - 10 * recurring + t) over the last call's sentiment,
\* satisfaction and churn tier, the active issues after issue processing and the
\* overall trend.
C2_ScoreFormula ==
    HasProfile =>
        LET s == IF LastCall.Sentiment = "Positive" THEN 20
                 ELSE IF LastCall.Sentiment = "Negative" THEN -20 ELSE 0
            c == IF LastCall.IsLikelyToChurn = "low" THEN 15
                 ELSE IF LastCall.IsLikelyToChurn = "high" THEN -25 ELSE 0
            t == IF Profile.Trends.OverallTrend = "improving" THEN 10
                 ELSE IF Profile.Trends.OverallTrend = "declining" THEN -10 ELSE 0
            open == Len(Profile.ActiveIssues)
            raw == 50 + s + (LastCall.SatisfactionScore - 5) * 4 + c
                      - Min(5 * open, 30) - 10 * RecurringActive + t
        IN  Status.HealthScore = Max(0, Min(100, raw))

\* More than six open issues (the cap binds), one of them recurring, and a score
\* the clamp does not decide.
C2_Witness ==
    /\ HasProfile
    /\ Len(Profile.ActiveIssues) > 6
    /\ RecurringActive > 0
    /\ Status.HealthScore \in 1..99

\* C3: for an account with no stored profile, one assessment with a single Billing
\* issue of severity high, sentiment Negative, satisfaction 2 and churn risk high
\* yields total_calls 1, one active issue, score 0, label Critical, needs_attention
\* with the reason "Critical health score".
EndToEndCall(a) ==
    /\ a.Issues = <<Issue("Billing", "high")>>
    /\ a.Sentiment = "Negative"
    /\ a.SatisfactionScore = 2
    /\ a.IsLikelyToChurn = "high"

C3_EndToEndScenario ==
    (Len(calls) = 1 /\ EndToEndCall(calls[1])) =>
        /\ HasProfile
        /\ Profile.TotalCalls = 1
        /\ Len(Profile.ActiveIssues) = 1
        /\ Profile.ActiveIssues[1].Bucket = "Billing"
        /\ Status.HealthScore = 0
        /\ Status.HealthLabel = "Critical"
        /\ Status.NeedsAttention
        /\ Status.AttentionReason = "Critical health score"

C3_Witness ==
    /\ Len(calls) = 1 /\ EndToEndCall(calls[1])
    /\ HasProfile /\ Profile.TotalCalls = 1

\* C4: needs_attention is true iff score < 40, or churn risk is high, or a recurring
\* issue is active, or the overall trend is declining; the reason is that of the
\* first of these that holds, in this order, and empty when none holds.
C4_AttentionPriority ==
    HasProfile =>
        LET low       == Status.HealthScore < 40
            churn     == Status.ChurnRisk = "high"
            recurring == RecurringActive > 0
            declining == Profile.Trends.OverallTrend = "declining"
        IN  /\ Status.NeedsAttention <=> (low \/ churn \/ recurring \/ declining)
            /\ low => Status.AttentionReason = "Critical health score"
            /\ (~low /\ churn) => Status.AttentionReason = "High churn risk"
            /\ (~low /\ ~churn /\ recurring) =>
                   Status.AttentionReason =
                       ToString(RecurringActive) \o " recurring unresolved issues"
            /\ (~low /\ ~churn /\ ~recurring /\ declining) =>
                   Status.AttentionReason = "Declining trend detected"
            /\ ~(low \/ churn \/ recurring \/ declining) => Status.AttentionReason = ""

\* Score below 40 together with high churn risk: only the score reason is recorded.
C4_Witness ==
    /\ HasProfile
    /\ Status.HealthScore \in 1..39
    /\ Status.ChurnRisk = "high"
    /\ RecurringActive > 0
    /\ Status.NeedsAttention
    /\ Status.AttentionReason = "Critical health score"

----------------------------------------------------------------------------
(* Issue lifecycle                                                         *)

ActiveIssues == IF HasProfile THEN Profile.ActiveIssues ELSE <<>>

ResolvedIssues == IF HasProfile THEN Profile.ResolvedIssues ELSE <<>>

ReportedBuckets(a) == {a.Issues[j].Bucket : j \in 1..Len(a.Issues)}

WithBucket(issues, b) == {i \in 1..Len(issues) : issues[i].Bucket = b}

IssueIDs(issues) == {issues[i].IssueID : i \in 1..Len(issues)}

\* The issues a step appended to the resolved list.
NewlyResolved == SubSeq(ResolvedIssues', Len(ResolvedIssues) + 1, Len(ResolvedIssues'))

\* C5: when a category is reported in N calls and no call signals prompt
\* resolution, the account has exactly one active issue of that category, with
\* mention_count = N and is_recurring = (N >= 2).
C5_MentionCountIsCallCount ==
    (\A i \in 1..Len(calls) : ~calls[i].PromptResolution) =>
        \A b \in UNION {ReportedBuckets(calls[i]) : i \in 1..Len(calls)} :
            LET N    == Cardinality({i \in 1..Len(calls) : b \in ReportedBuckets(calls[i])})
                hits == WithBucket(ActiveIssues, b)
            IN  /\ Cardinality(hits) = 1
                /\ \A k \in hits :
                       /\ ActiveIssues[k].MentionCount = N
                       /\ ActiveIssues[k].IsRecurring = (N >= 2)

\* C6: a call raises the mention_count of each category it reports by exactly 1
\* (or creates the issue with mention_count 1) and appends its call id once,
\* however many issues of the category it lists; one call alone never makes an
\* issue recurring.
C6_OneMentionPerCall ==
    [][calls' # calls =>
        LET a == calls'[Len(calls')]
        IN  /\ \A b \in ReportedBuckets(a) :
                   LET prev == WithBucket(ActiveIssues, b)
                       cur  == WithBucket(ActiveIssues', b)
                   IN  /\ Cardinality(cur) = 1
                       /\ \A k \in cur :
                              IF prev = {}
                              THEN /\ ActiveIssues'[k].MentionCount = 1
                                   /\ ActiveIssues'[k].CallIDs = <<a.CallID>>
                              ELSE \A q \in prev :
                                   /\ ActiveIssues'[k].MentionCount =
                                          ActiveIssues[q].MentionCount + 1
                                   /\ ActiveIssues'[k].CallIDs =
                                          Append(ActiveIssues[q].CallIDs, a.CallID)
            /\ Len(calls') = 1 =>
                   \A k \in 1..Len(ActiveIssues') : ~ActiveIssues'[k].IsRecurring
    ]_vars

\* C7: a reconciliation moves to resolved exactly the issues that were active
\* before the call and whose category the call does not report when the call
\* signals prompt resolution, and none otherwise; each moved issue is resolved
\* with resolved_at set, the categories the call reports stay active, the call's
\* issues_resolved is the number moved, and a resolving call without issues
\* empties the active list.
C7_ResolvesExactlyUnmentioned ==
    [][calls' # calls =>
        LET a        == calls'[Len(calls')]
            expected == IF a.PromptResolution
                        THEN {i \in 1..Len(ActiveIssues) :
                                 ActiveIssues[i].Bucket \notin ReportedBuckets(a)}
                        ELSE {}
            moved    == NewlyResolved
        IN  /\ Len(moved) = Cardinality(expected)
            /\ \A i \in expected : \E m \in 1..Len(moved) :
                   /\ moved[m].IssueID = ActiveIssues[i].IssueID
                   /\ moved[m].Bucket = ActiveIssues[i].Bucket
            /\ \A m \in 1..Len(moved) :
                   moved[m].Status = "resolved" /\ moved[m].ResolvedAt # <<>>
            /\ \A b \in ReportedBuckets(a) : WithBucket(ActiveIssues', b) # {}
            /\ \A i \in 1..Len(ActiveIssues) :
                   i \notin expected => WithBucket(ActiveIssues', ActiveIssues[i].Bucket) # {}
            /\ Profile'.CallHistory[1].IssuesResolved = Len(moved)
            /\ (a.PromptResolution /\ a.Issues = <<>>) => ActiveIssues' = <<>>
    ]_vars

\* C8: while a tracked issue stays active its severity rank never decreases, and
\* after a call that reports its category its rank is the highest of its previous
\* rank and the ranks reported for the category in that call.
C8_SeverityNeverDowngrades ==
    [][calls' # calls =>
        LET a == calls'[Len(calls')]
        IN  \A i \in 1..Len(ActiveIssues) :
                \A k \in WithBucket(ActiveIssues', ActiveIssues[i].Bucket) :
                    LET old      == severityLevel(ActiveIssues[i].Severity)
                        new      == severityLevel(ActiveIssues'[k].Severity)
                        reported == {severityLevel(a.Issues[j].Severity) :
                                        j \in WithBucket(a.Issues, ActiveIssues[i].Bucket)}
                    IN  /\ new >= old
                        /\ new \in reported \cup {old}
                        /\ \A r \in reported : new >= r
    ]_vars

\* An issue first reported as high is reported again as low and is still high.
C8_Witness ==
    /\ Len(calls) >= 2
    /\ calls[1].Issues = <<Issue("Billing", "high")>>
    /\ LastCall.Issues = <<Issue("Billing", "low")>>
    /\ \E k \in WithBucket(ActiveIssues, "Billing") :
           ActiveIssues[k].Severity = "high" /\ ActiveIssues[k].MentionCount >= 2

\* C9: every tracked issue has mention_count >= 1 and is_recurring iff
\* mention_count >= 2; resolved_at is set iff status is resolved iff the issue is
\* in the resolved list; and is_recurring, once set, stays set.
TrackedIssueOK(issue, inResolved) ==
    /\ issue.MentionCount >= 1
    /\ issue.IsRecurring <=> issue.MentionCount >= 2
    /\ (issue.ResolvedAt # <<>>) <=> (issue.Status = "resolved")
    /\ (issue.Status = "resolved") <=> inResolved

RecurringStaysSet ==
    /\ \A i \in 1..Len(ResolvedIssues) :
           /\ i <= Len(ResolvedIssues')
           /\ ResolvedIssues[i].IsRecurring => ResolvedIssues'[i].IsRecurring
    /\ \A i \in 1..Len(ActiveIssues) :
           ActiveIssues[i].IsRecurring =>
               \/ \E k \in WithBucket(ActiveIssues', ActiveIssues[i].Bucket) :
                      ActiveIssues'[k].IsRecurring
               \/ \E m \in 1..Len(NewlyResolved) :
                      /\ NewlyResolved[m].Bucket = ActiveIssues[i].Bucket
                      /\ NewlyResolved[m].IsRecurring

C9_TrackedIssueInvariant ==
    /\ [](/\ \A i \in 1..Len(ActiveIssues) : TrackedIssueOK(ActiveIssues[i], FALSE)
          /\ \A i \in 1..Len(ResolvedIssues) : TrackedIssueOK(ResolvedIssues[i], TRUE))
    /\ [][RecurringStaysSet]_vars

\* A recurring issue has been resolved while another issue is still open.
C9_Witness ==
    /\ \E i \in 1..Len(ResolvedIssues) :
           ResolvedIssues[i].IsRecurring /\ ResolvedIssues[i].ResolvedAt # <<>>
    /\ \E i \in 1..Len(ActiveIssues) : ActiveIssues[i].MentionCount = 1

\* C10: no issue identifier appears in both active_issues and resolved_issues.
C10_ActiveResolvedDisjoint ==
    IssueIDs(ActiveIssues) \cap IssueIDs(ResolvedIssues) = {}

\* C11: the identifiers of all issues in active_issues and resolved_issues
\* together are pairwise distinct.
C11_IssueIDsUnique ==
    LET all == ActiveIssues \o ResolvedIssues
    IN  \A i, j \in 1..Len(all) : all[i].IssueID = all[j].IssueID => i = j

TotalCalls == IF HasProfile THEN Profile.TotalCalls ELSE 0

CallHistory == IF HasProfile THEN Profile.CallHistory ELSE <<>>

\* C12: total_calls equals the length of call_history in every state, and each
\* reconciliation increases both by exactly 1.
C12_TotalCallsIsHistoryLength ==
    /\ [](TotalCalls = Len(CallHistory))
    /\ [][/\ TotalCalls' = TotalCalls + 1
          /\ Len(CallHistory') = Len(CallHistory) + 1]_vars

C12_Witness ==
    /\ Len(calls) = MaxCalls
    /\ TotalCalls = MaxCalls
    /\ Len(CallHistory) = MaxCalls

----------------------------------------------------------------------------
(* Trends                                                                  *)

Values(points) == [i \in 1..Len(points) |-> points[i].Value]

LastThree(points) == SubSeq(points, Max(1, Len(points) - 2), Len(points))

\* The direction of at most three values x (twice the source values), from
\* four times the difference of the source averages: with two values it is
\* 2 * (x2 - x1), with three it is x2 + x3 - 2 * x1; the source compares the
\* difference with 0.1, so this compares ten times that with 4.
ExpectedDirection(x) ==
    IF Len(x) < 2 THEN "stable"
    ELSE
        LET d4 == IF Len(x) = 2 THEN 2 * (x[2] - x[1]) ELSE x[2] + x[3] - 2 * x[1]
        IN  IF 10 * d4 > 4 THEN "improving"
            ELSE IF 10 * d4 < -4 THEN "declining"
            ELSE "stable"

\* C13: the direction of a series is stable below 2 points; otherwise it
\* compares the average of the first floor(k/2) (minimum 1) of the last
\* k = min(3, n) points with the average of the rest against +-0.1, so it
\* depends only on the last 3 points.
C13_DirectionFromLastThree ==
    series # <<>> => direction = ExpectedDirection(Values(LastThree(series)))

C13_Witness ==
    /\ Values(series) = <<6, 0, 1, 2>>
    /\ direction = "improving"

StrictlyIncreasing(x) == \A i \in 1..(Len(x) - 1) : x[i] < x[i + 1]

ConstantSeries(x) == \A i \in 1..Len(x) : x[i] = x[1]

\* C14: over the value domains the series use, a strictly increasing 3-point
\* sequence gives improving, a constant sequence of any length gives stable,
\* and the direction is a function of the sequence alone.
C14_IncreasingImprovingConstantStable ==
    series # <<>> =>
        /\ (Len(series) = 3 /\ StrictlyIncreasing(Values(series)))
               => direction = "improving"
        /\ ConstantSeries(Values(series)) => direction = "stable"
        /\ direction = calculateTrendDirection(series)

C14_Witness ==
    /\ Values(series) = <<0, 1, 2>>
    /\ direction = "improving"

Trends == Profile.Trends

IssueTrend == calculateTrendDirection(Trends.IssueHistory)

\* C15: after each reconciliation the overall trend is improving when the
\* issue-count trend is declining, declining when it is improving, and the
\* recomputed sentiment trend when it is stable.
C15_OverallTrendInvertsIssueTrend ==
    HasProfile =>
        /\ Trends.SentimentTrend = calculateTrendDirection(Trends.SentimentHistory)
        /\ IssueTrend = "declining" => Trends.OverallTrend = "improving"
        /\ IssueTrend = "improving" => Trends.OverallTrend = "declining"
        /\ IssueTrend = "stable" => Trends.OverallTrend = Trends.SentimentTrend

C15_Witness ==
    /\ HasProfile
    /\ IssueTrend = "improving"
    /\ Trends.SentimentTrend = "improving"
    /\ Trends.OverallTrend = "declining"

----------------------------------------------------------------------------
(* Aggregation and tickets                                                 *)

\* The aggregation runs that succeeded, by position in aggLog.
Runs == {i \in 1..Len(aggLog) : aggLog[i].Op = "run" /\ ~aggLog[i].Err}

\* The last step was a run of aggregation that succeeded.
Ran == aggLog # <<>> /\ aggLog[Len(aggLog)].Op = "run" /\ ~aggLog[Len(aggLog)].Err

LastRun == aggLog[Len(aggLog)]

TicketBuckets(list) == {list[i].FeatureBucket : i \in 1..Len(list)}

Qualifying(fb) == {b \in DOMAIN fb : fb[b].TotalCount >= 3}

TicketRuleOK(fb, list) ==
    /\ Len(list) <= 5
    /\ TicketBuckets(list) \subseteq Qualifying(fb)
    /\ Cardinality(Qualifying(fb)) <= 5 => TicketBuckets(list) = Qualifying(fb)
    /\ \A i, j \in 1..Len(list) :
           i < j => fb[list[i].FeatureBucket].TotalCount >= fb[list[j].FeatureBucket].TotalCount
    /\ \A b \in Qualifying(fb) \ TicketBuckets(list) : \A i \in 1..Len(list) :
           fb[b].TotalCount <= fb[list[i].FeatureBucket].TotalCount

\* C16: generateTickets returns at most 5 tickets, none for a category with
\* total_count below 3, one for every category with total_count >= 3 when at
\* most 5 qualify, in non-increasing order of total_count, and no excluded
\* qualifying category has a larger total_count than an included one.
C16_TicketsCappedFilteredOrdered ==
    Ran => TicketRuleOK(LastRun.Aggregate.FeatureBuckets, LastRun.Tickets)

C16_Witness ==
    \E r \in Runs :
        /\ Cardinality(Qualifying(aggLog[r].Aggregate.FeatureBuckets)) = 6
        /\ Len(aggLog[r].Tickets) = 5
        /\ "Other" \notin TicketBuckets(aggLog[r].Tickets)

ExpectedSeverity(totalCount) ==
    CASE totalCount >= 10                   -> "critical"
      [] totalCount >= 5 /\ totalCount <= 9 -> "high"
      [] OTHER                              -> "medium"

PriorityAndSeverityOK(fb, list) ==
    \A i \in 1..Len(list) :
        /\ list[i].Priority = i
        /\ list[i].Severity = ExpectedSeverity(fb[list[i].FeatureBucket].TotalCount)

\* The categories of the end-to-end scenario: A with 12, B with 4, C with 2.
ScenarioCounts(fb) ==
    /\ DOMAIN fb = {"Payments", "Lead Quality", "Other"}
    /\ fb["Payments"].TotalCount = 12
    /\ fb["Lead Quality"].TotalCount = 4
    /\ fb["Other"].TotalCount = 2

ScenarioTickets(list) ==
    /\ Len(list) = 2
    /\ list[1].FeatureBucket = "Payments"
    /\ list[1].Priority = 1
    /\ list[1].Severity = "critical"
    /\ list[2].FeatureBucket = "Lead Quality"
    /\ list[2].Priority = 2
    /\ list[2].Severity = "medium"

\* C17: the i-th ticket has priority i, its severity is critical from 10,
\* high from 5 to 9 and medium below, and categories {A: 12, B: 4, C: 2} give
\* exactly A (priority 1, critical) and B (priority 2, medium).
C17_PriorityBySeverityByCount ==
    Ran =>
        /\ PriorityAndSeverityOK(LastRun.Aggregate.FeatureBuckets, LastRun.Tickets)
        /\ ScenarioCounts(LastRun.Aggregate.FeatureBuckets)
               => ScenarioTickets(LastRun.Tickets)

C17_Witness ==
    \E r \in Runs :
        /\ ScenarioCounts(aggLog[r].Aggregate.FeatureBuckets)
        /\ ScenarioTickets(aggLog[r].Tickets)

RetainedOK(analyses, fb, b) ==
    LET top      == fb[b].TopProblems
        counts   == bucketProblems(analyses, b)
        retained == {top[i].Problem : i \in 1..Len(top)}
    IN  /\ Len(top) <= 5
        /\ Cardinality(retained) = Len(top)
        /\ \A i \in 1..Len(top) :
               top[i].Problem \in DOMAIN counts /\ top[i].Count = counts[top[i].Problem]
        /\ \A i, j \in 1..Len(top) : i < j => top[i].Count >= top[j].Count
        /\ \A p \in DOMAIN counts \ retained : \A i \in 1..Len(top) :
               counts[p] <= top[i].Count
        /\ fb[b].TotalCount = SumSeq([i \in 1..Len(top) |-> top[i].Count])

RECURSIVE SumTotalCount(_)
SumTotalCount(fb) ==
    IF DOMAIN fb = {} THEN 0
    ELSE
        LET b == CHOOSE x \in DOMAIN fb : TRUE
        IN  fb[b].TotalCount + SumTotalCount([x \in DOMAIN fb \ {b} |-> fb[x]])

\* C19: the sum of total_count over all categories of the period summary
\* equals the summary's total_issues.
C19_TotalCountsSumToTotalIssues ==
    Ran => SumTotalCount(LastRun.Aggregate.FeatureBuckets) = LastRun.Aggregate.TotalIssues

\* C20: after a run of aggregation the stored summary and the stored tickets
\* of the date are exactly those the latest run produced, and at most 5
\* tickets are stored.
C20_RerunReplacesSummaryAndTickets ==
    Ran =>
        /\ aggregate = <<LastRun.Aggregate>>
        /\ tickets = {LastRun.Tickets[i] : i \in 1..Len(LastRun.Tickets)}
        /\ Cardinality(tickets) <= 5

AllTracked == ActiveIssues \o ResolvedIssues

TrackedBuckets == {AllTracked[i].Bucket : i \in 1..Len(AllTracked)}

\* The mentions ever recorded for a category: the sum of mention_count over
\* its tracked issues, active and resolved.
RECURSIVE MentionsOf(_, _)
MentionsOf(issues, b) ==
    IF issues = <<>> THEN 0
    ELSE (IF Head(issues).Bucket = b THEN Head(issues).MentionCount ELSE 0)
             + MentionsOf(Tail(issues), b)

TopBucketNames(top) == {top[i].Bucket : i \in 1..Len(top)}

\* C27: after each reconciliation the top categories of the issue statistics
\* are the (at most) 5 categories with the most mentions ever recorded, a
\* category's count being the sum of mention_count over its tracked issues of
\* the active and the resolved lists.
C27_TopBucketsByTotalMentions ==
    HasProfile =>
        \A top \in topBuckets(Profile) :
            /\ Len(top) = Min(5, Cardinality(TrackedBuckets))
            /\ \A i \in 1..Len(top) : top[i].Count = MentionsOf(AllTracked, top[i].Bucket)
            /\ \A i \in 1..Len(top) : \A b \in TrackedBuckets \ TopBucketNames(top) :
                   MentionsOf(AllTracked, b) <= MentionsOf(AllTracked, top[i].Bucket)

SeverityLevels == {"low", "medium", "high", "critical"}

RECURSIVE SumOver(_)
SumOver(f) ==
    IF DOMAIN f = {} THEN 0
    ELSE
        LET k == CHOOSE x \in DOMAIN f : TRUE
        IN  f[k] + SumOver([x \in DOMAIN f \ {k} |-> f[x]])

\* C28: after each reconciliation the derived counters agree with the issue
\* lists: current_open_count = open_issue_count = number of active issues,
\* resolved_count = number of resolved issues, total_issues_ever = their sum,
\* recurring_count = number of active issues with is_recurring, and the
\* severity histogram counts the active issues only.
C28_CountersAgreeWithIssueLists ==
    HasProfile =>
        LET stats == Profile.IssueStats
            active == Profile.ActiveIssues
        IN  /\ stats.CurrentOpenCount = Len(active)
            /\ Status.OpenIssueCount = Len(active)
            /\ stats.ResolvedCount = Len(Profile.ResolvedIssues)
            /\ stats.TotalIssuesEver = Len(active) + Len(Profile.ResolvedIssues)
            /\ stats.RecurringCount = RecurringActive
            /\ \A sev \in DOMAIN stats.SeverityBreakdown :
                   stats.SeverityBreakdown[sev]
                       = Cardinality({i \in 1..Len(active) : active[i].Severity = sev})
            /\ SumOver(stats.SeverityBreakdown) = Len(active)

\* A profile with an open recurring issue and a resolved one.
C28_Witness ==
    /\ HasProfile
    /\ Len(Profile.ActiveIssues) >= 1
    /\ Len(Profile.ResolvedIssues) >= 1
    /\ Profile.IssueStats.RecurringCount >= 1
    /\ Profile.IssueStats.SeverityBreakdown # << >>

\* Every ticket a run generated, with the tickets of the store.
GeneratedTickets ==
    tickets \cup UNION {{aggLog[r].Tickets[i] : i \in 1..Len(aggLog[r].Tickets)} : r \in Runs}

\* C29: the ticket identifier depends only on the period key and the
\* category: tickets generated for the same date and category carry the same
\* identifier, whatever their counts, their rank or the run they come from.
C29_TicketIDFromDateAndCategory ==
    \A t1, t2 \in GeneratedTickets :
        (t1.Date = t2.Date /\ t1.FeatureBucket = t2.FeatureBucket)
            => t1.TicketID = t2.TicketID

\* Two runs ticketed one category at different ranks and one category with
\* different counts.
C29_Witness ==
    /\ \E t1, t2 \in GeneratedTickets :
        /\ t1.FeatureBucket = t2.FeatureBucket
        /\ t1.CreatedAt # t2.CreatedAt
        /\ t1.Priority # t2.Priority
    /\ \E t1, t2 \in GeneratedTickets :
        /\ t1.FeatureBucket = t2.FeatureBucket
        /\ t1.CreatedAt # t2.CreatedAt
        /\ t1.AffectedCount # t2.AffectedCount

\* The profile a reader of the store gets.
Persisted == IF mongoEnabled THEN mongoStored ELSE stored

LastUpdate == updateLog[Len(updateLog)]

\* The invocation just made met a genuine error reading the persisted profile.
LoadFailed(entry) ==
    \/ mongoEnabled /\ entry.IO.MongoLoad = "error"
    \/ ~mongoEnabled /\ stored # NotFound /\ entry.IO.FileLoad = "error"

\* C21: when reading the persisted profile fails with a genuine storage
\* error, UpdateSellerProfile returns an error and the persisted profile is
\* unchanged; a new empty profile is initialized only when none is stored.
C21_LoadFailureIsFatalAndHarmless ==
    [][(Len(updateLog') > Len(updateLog) /\ LoadFailed(LastUpdate'))
           => /\ LastUpdate'.Err
              /\ UNCHANGED <<stored, mongoStored>>]_vars

\* C26: when UpdateSellerProfile returns an error nothing of the
\* reconciliation has been written: a reader of the store sees the profile
\* from before the call, and after a successful call the fully updated one.
C26_ErrorLeavesStoreUntouched ==
    [][(Len(updateLog') > Len(updateLog) /\ LastUpdate'.Err)
           => UNCHANGED <<stored, mongoStored>>]_vars

LastEntry == aggLog[Len(aggLog)]

\* The last step was a run of aggregation, whatever it returned.
RunReturned == aggLog # <<>> /\ LastEntry.Op = "run"

\* C22: RunAggregation either persists the summary together with the
\* complete ticket set of the run and returns success, or returns a failure:
\* after a run that returned success the stored summary is the run's and every
\* ticket of the run is stored, and a run that returned a failure changed
\* neither.
C22_SuccessMeansSummaryAndAllTicketsSaved ==
    /\ [](Ran => /\ aggregate = <<LastRun.Aggregate>>
                 /\ \A i \in 1..Len(LastRun.Tickets) : LastRun.Tickets[i] \in tickets)
    /\ [][(Len(aggLog') > Len(aggLog) /\ RunReturned' /\ LastEntry'.Err)
              => UNCHANGED <<aggregate, tickets>>]_vars

\* C23: a run of aggregation for a date with no analyses is not an error and
\* leaves the stored summary and tickets unchanged; a summary with no
\* qualifying category yields zero tickets without an error.
C23_NoAnalysesIsNotAnError ==
    /\ [][(Len(aggLog') > Len(aggLog) /\ RunReturned'
              /\ DOMAIN LoadAllAnalysisForDate(analysisFiles, AggDate) = {})
              => ~LastEntry'.Err /\ UNCHANGED <<aggregate, tickets>>]_vars
    /\ []((RunReturned /\ DOMAIN LoadAllAnalysisForDate(analysisFiles, AggDate) # {}
              /\ LastEntry.IO = NoAggFaults)
              => /\ ~LastEntry.Err
                 /\ (Qualifying(LastEntry.Aggregate.FeatureBuckets) = {}
                        => LastEntry.Tickets = <<>>))

Analyzed(outcome) == outcome \in {"ok", "analysis save error"}

\* C30: the watcher triggers aggregation exactly when the count of
\* transcripts analyzed and reconciled since the last trigger reaches 10 and
\* resets the counter to 0 then: between two processTranscript steps the
\* counter is in 0..9, a transcript analyzed and reconciled advances it by one
\* (the tenth triggers a run and resets it), and a failed or empty transcript
\* leaves it alone and triggers nothing.
C30_TriggerAtTenAndReset ==
    /\ [](analysisCount \in 0..9)
    /\ [][lastOutcome'.Step > lastOutcome.Step =>
             IF Analyzed(lastOutcome'.Outcome)
             THEN IF analysisCount = 9
                  THEN /\ analysisCount' = 0
                       /\ lastOutcome'.Triggered
                       /\ Len(aggLog') = Len(aggLog) + 1
                       /\ aggLog'[Len(aggLog')].Op = "run"
                  ELSE /\ analysisCount' = analysisCount + 1
                       /\ ~lastOutcome'.Triggered
                       /\ UNCHANGED <<aggLog, aggregate, tickets>>
             ELSE /\ analysisCount' = analysisCount
                  /\ ~lastOutcome'.Triggered
                  /\ UNCHANGED <<aggLog, aggregate, tickets>>]_vars

\* The tenth analyzed transcript triggered a run, one step before it having
\* failed, and the counter is back at 0.
C30_Witness ==
    /\ lastOutcome.Triggered
    /\ lastOutcome.Faults = 1
    /\ lastOutcome.Step = 11
    /\ analysisCount = 0
    /\ Ran
    /\ aggregate # <<>>

\* The calls among the first n reconciled that reported category b.
CallsReporting(b, n) == {i \in 1..n : b \in ReportedBuckets(calls[i])}

PointIDs(history) == [i \in 1..Len(history) |-> history[i].CallID]

CallIDsOf(list) == [i \in 1..Len(list) |-> list[i].CallID]

\* C25: no two load-reconcile-save sequences of UpdateSellerProfile for the
\* account overlap, so after K reconciled calls the stored profile has
\* total_calls = K, its call history and every trend series hold the K calls
\* in order, and every mention of a category is counted.
C25_UpdatesSerializedNothingLost ==
    /\ Cardinality(InFlight) <= 1
    /\ (InFlight = {} /\ calls # <<>>) =>
          LET K == Len(calls)
          IN  /\ HasProfile
              /\ Profile.TotalCalls = K
              /\ Len(Profile.CallHistory) = K
              /\ \A i \in 1..K : Profile.CallHistory[K + 1 - i].CallID = calls[i].CallID
              /\ PointIDs(Profile.Trends.SentimentHistory) = CallIDsOf(calls)
              /\ PointIDs(Profile.Trends.SatisfactionHistory) = CallIDsOf(calls)
              /\ PointIDs(Profile.Trends.IssueHistory) = CallIDsOf(calls)
              /\ PointIDs(Profile.Trends.ChurnRiskHistory) = CallIDsOf(calls)
              /\ \A b \in {"Billing", "Payments"} :
                     MentionsOf(AllTracked, b) = Cardinality(CallsReporting(b, K))

\* Three calls were reconciled one after the other, the second and the third
\* repeating a category of the first.
C25_Witness ==
    /\ InFlight = {}
    /\ Len(calls) = 3
    /\ Profile.TotalCalls = 3
    /\ MentionsOf(AllTracked, "Billing") = 2
    /\ MentionsOf(AllTracked, "Payments") = 1

\* C24: no two executions of RunAggregation for the date overlap, whichever
\* trigger starts them, so the stored ticket set and the stored summary of
\* the date come from a single run.
C24_RunsDoNotOverlap ==
    /\ Cardinality(Busy) <= 1
    /\ Busy = {} => provenance.Aggregate = provenance.Tickets

\* The accounts that reported an issue of the category in the batch.
ReportingAccounts(analyses, bucket) ==
    {k.SellerID : k \in {x \in DOMAIN analyses :
                            \E i \in 1..Len(analyses[x].Issues) :
                                analyses[x].Issues[i].Bucket = bucket}}

\* C31: a ticket's affected-account count equals the number of distinct
\* accounts that reported an issue in the ticket's category during the period.
C31_AffectedCountIsDistinctAccounts ==
    Ran => \A i \in 1..Len(LastRun.Tickets) :
               LastRun.Tickets[i].AffectedCount
                   = Cardinality(ReportingAccounts(LastRun.Analyses,
                                                   LastRun.Tickets[i].FeatureBucket))

\* C32: after any sequence of reconciliations, the assessment timestamps
\* arriving in any order, call_history is ordered most-recent-first: its
\* timestamps are non-increasing from the first entry to the last.
C32_CallHistoryMostRecentFirst ==
    HasProfile =>
        \A i, j \in 1..Len(Profile.CallHistory) :
            i < j => Profile.CallHistory[i].Timestamp >= Profile.CallHistory[j].Timestamp

AllTrackedIssues == Profile.ActiveIssues \o Profile.ResolvedIssues

ResolvedOf(st) == IF st = NotFound THEN <<>> ELSE st[1].ResolvedIssues

ActiveOf(st) == IF st = NotFound THEN <<>> ELSE st[1].ActiveIssues

\* C37: a reconciliation leaves every resolved issue in place and unchanged; a
\* report of a category that has no active issue creates a new tracked issue with
\* mention_count 1; the number of resolved issues is the sum of issues_resolved
\* over the call history.
C37_ResolutionIsFinal ==
    [][LET old == ResolvedOf(stored)
           new == ResolvedOf(stored')
           a   == calls'[Len(calls')]
       IN  /\ Len(new) >= Len(old)
           /\ SubSeq(new, 1, Len(old)) = old
           /\ \A i \in 1..Len(a.Issues) :
                  (/\ \E k \in 1..Len(old) : old[k].Bucket = a.Issues[i].Bucket
                   /\ \A k \in 1..Len(ActiveOf(stored)) :
                          ActiveOf(stored)[k].Bucket # a.Issues[i].Bucket)
                  => \E k \in 1..Len(ActiveOf(stored')) :
                         /\ ActiveOf(stored')[k].Bucket = a.Issues[i].Bucket
                         /\ ActiveOf(stored')[k].FirstReportedAt = clock'
                         /\ ActiveOf(stored')[k].MentionCount = 1
           /\ Len(new) = SumSeq([i \in 1..Len(stored'[1].CallHistory) |->
                                     stored'[1].CallHistory[i].IssuesResolved])]_vars

SuccessfulRuns == {i \in 1..Len(aggLog) : aggLog[i].Op = "run" /\ ~aggLog[i].Err}

TicketFacts(list) ==
    {<<list[i].FeatureBucket, list[i].Priority, list[i].Title>> : i \in 1..Len(list)}

\* C39: two runs of ticket generation on the same period summary (the same date
\* and the same per-category summaries) return the same categories with the
\* same priorities and titles.
C39_TicketGenerationDeterministic ==
    \A i, j \in SuccessfulRuns :
        (/\ aggLog[i].Aggregate.Date = aggLog[j].Aggregate.Date
         /\ aggLog[i].Aggregate.FeatureBuckets = aggLog[j].Aggregate.FeatureBuckets)
            => TicketFacts(aggLog[i].Tickets) = TicketFacts(aggLog[j].Tickets)

FoldsOf(f) ==
    Cardinality({i \in 1..Len(Profile.CallHistory) :
                    Profile.CallHistory[i].CallID = ToString(f)})

\* C33: whatever polls, failures and restarts happened, every transcript file
\* was folded into the profile at most once: it has at most one entry in the
\* call history, and total_calls is at most the number of transcripts.
C33_TranscriptFoldedAtMostOnce ==
    HasProfile /\ stored # Truncated =>
        /\ \A f \in TranscriptFiles : FoldsOf(f) <= 1
        /\ Profile.TotalCalls <= Cardinality(TranscriptFiles)

GoodFiles == PollFiles \ {BadFile}

\* C34: with the poll loop scheduled fairly, every transcript that parses, has
\* text and whose analysis and profile save succeed in the end is eventually
\* folded into the profile and marked processed, while the file that keeps
\* failing is tried again and again.
C34_EveryGoodFileEventuallyProcessed ==
    /\ <>[](/\ GoodFiles \subseteq processedFiles
            /\ HasProfile
            /\ \A f \in GoodFiles : FoldsOf(f) >= 1)
    /\ []<><<lastOutcome'.File = BadFile>>_vars

\* The failing file was tried, failed, and a later file was processed after it.
C34_Witness ==
    /\ lastOutcome.File = MaxPollFiles
    /\ lastOutcome.Outcome = "ok"
    /\ lastOutcome.Faults = MaxPollFaults
    /\ BadFile \notin processedFiles
    /\ GoodFiles \subseteq processedFiles

\* The analyses counted toward the threshold that fired last: the last
\* aggregateThreshold calls the watcher folded.
CountedKeys ==
    {FileKey(GluserID, calls[i].CallID) :
        i \in (Len(calls) - aggregateThreshold + 1)..Len(calls)}

\* C40: when the threshold fired, the run it started succeeded and covered
\* every analysis counted toward the threshold, the one that fired it included.
C40_TriggeredRunCoversCountedAnalyses ==
    lastOutcome.Triggered =>
        /\ ~LastEntry.Err
        /\ CountedKeys \subseteq DOMAIN LastEntry.Analyses

====
